---- MODULE Spec2Model ----
(***************************************************************************)
(* The deliberation engine of decideplease: the Session Dispatcher         *)
(* (backend/main.py: send_message_stream, rerun_decision, cancel,          *)
(* status, retry, delete), the Pipeline Scheduler task                     *)
(* (_process_decision_request), the Credit Ledger and the Transcript       *)
(* Store (backend/storage_pg.py).                                          *)
(*                                                                         *)
(* A Scheduler task is an asyncio task.  Its position pc names the await   *)
(* at which it is suspended; one action resumes it from that await, runs   *)
(* the awaited operation and the synchronous code up to the next await.    *)
(* Puts on the unbounded asyncio.Queue never suspend.                      *)
(***************************************************************************)
EXTENDS Integers, Sequences, FiniteSets, TLC

\* ------------------------------------------------------------------ bounds
MaxTasks == 2          \* Scheduler tasks alive at the same time
MaxMessages == 4       \* rows the messages table receives in one behaviour
MaxCredits == 4        \* largest initial balance of the paying principal
MaxTenantMessages == 6 \* rows the messages table receives under SpecTenants
MaxStoreMessages == 3  \* rows the messages table receives under SpecStore
MaxTextLen == 4        \* tokens of a ranking text
MaxRaters == 3         \* raters whose replies are aggregated
MaxRankLen == 3        \* labels in the order one rater gives
MaxHeartbeats == 1     \* heartbeat events one companion enqueues
MaxChunks == 3         \* token events one stream yields

\* ------------------------------------------------------- fixed configuration
Users == {"u1", "admin"}
Convs == {"d1", "d2"}
Contents == {"q1"}
Pool == {"m1"}                      \* the endpoints of a mode's pool
TaskIds == 1..MaxTasks
NoTask == 0
NoMsg == 0
Null == {"null"}                    \* SQL NULL of a JSON stage column
NullText == "null"

\* users(id, role) and conversations(id, user_id) rows
role == [u \in Users |-> IF u = "admin" THEN "admin" ELSE "user"]
owner == [d \in Convs |-> IF d = "d1" THEN "u1" ELSE "admin"]

RUN_MODES == {"quick_decision", "decide_please", "decide_pretty_please"}
RequestModes == RUN_MODES \cup {"extra_care", "bogus"}
FILE_UPLOAD_CREDIT_COST == 1

LEGACY_MODE_MAPPING(m) ==
    CASE m = "quick" -> "quick_decision"
      [] m = "standard" -> "decide_please"
      [] m = "extra_care" -> "decide_pretty_please"
      [] OTHER -> m

\* mode = LEGACY_MODE_MAPPING.get(mode); if mode not in RUN_MODES: "decide_please"
NormalizeMode(m) ==
    LET m1 == LEGACY_MODE_MAPPING(m)
    IN  IF m1 \in RUN_MODES THEN m1 ELSE "decide_please"

credit_cost(m) ==
    CASE m = "quick_decision" -> 1
      [] m = "decide_please" -> 2
      [] m = "decide_pretty_please" -> 4

enable_peer_review(m) == m \in {"decide_please", "decide_pretty_please"}
enable_cross_review(m) == m = "decide_pretty_please"

has_permission(user_role, permission) ==
    permission = "unlimited_credits" /\ user_role \in {"admin", "superadmin"}

\* ------------------------------------------------------------------- state
VARIABLES
    credits,        \* users.credits
    b0,             \* the balances at the start of the behaviour (never changes)
    messages,       \* messages rows of each conversation, ORDER BY created_at
    next_id,        \* the serial of messages.id
    tasks,          \* the Scheduler tasks: locals, position, event queue
    active_tasks,   \* _active_tasks : conversation_id -> task
    active_status,  \* _active_status : conversation_id -> stage
    call            \* the last call whose return value is kept: name, argument, value

vars == <<credits, b0, messages, next_id, tasks, active_tasks, active_status, call>>

\* The record of a task: the parameters and locals of _process_decision_request,
\* its event queue and its reader, and history fields that the code does not
\* hold: reserved, refunded, balance_before (the ledger operations made for this
\* request), commit_at (the length of the event queue when the Answer was
\* committed, -1 before), question_id, retry_of, and previous_decision (the id
\* of the row whose stage3 the follow-up read, NoMsg when it found none).
\* revision_number is the local of add_assistant_message_complete, 0 until its
\* SELECT has run.
\* the phases of a run that have a heartbeat companion, by the pc of their await
PhasePcs == {"stage1", "stage1_5", "stage2", "stage3"}

IdleTask == [
    pc |-> "idle", conversation_id |-> "d1", user_id |-> "u1", content |-> "q1",
    mode |-> "decide_please", is_rerun |-> FALSE, is_first_message |-> FALSE,
    has_files |-> FALSE, parent_message_id |-> NoMsg, cancel_requested |-> FALSE,
    event_queue |-> <<>>, reader |-> "none",
    stage1_results |-> {}, stage1_5_results |-> {}, stage2_results |-> {},
    stage3_result |-> NullText, message_id |-> NoMsg, title_task |-> "none",
    reserved |-> 0, refunded |-> 0, commit_at |-> -1, question_id |-> NoMsg,
    retry_of |-> NoMsg, balance_before |-> 0,
    source_message_id |-> NoMsg, previous_decision |-> NoMsg,
    heartbeats |-> [p \in PhasePcs |-> "none"], revision_number |-> 0 ]

\* no call has been made
NoCall == [op |-> "none", input |-> <<>>, output |-> <<>>]

\* the state after startup once the balances are b: no row, no task, empty registries
InitWith(b) ==
    /\ b0 = b
    /\ credits = b
    /\ messages = [d \in Convs |-> <<>>]
    /\ next_id = 1
    /\ tasks = [t \in TaskIds |-> IdleTask]
    /\ active_tasks = [d \in Convs |-> NoTask]
    /\ active_status = [d \in Convs |-> "none"]
    /\ call = NoCall

\* the paying principal starts with MaxCredits, the administrator with none
Init == InitWith([u \in Users |-> IF u = "u1" THEN MaxCredits ELSE 0])

\* every starting balance of the paying principal up to MaxCredits
InitConcurrent ==
    \E b \in 0..MaxCredits : InitWith([u \in Users |-> IF u = "u1" THEN b ELSE 0])

\* ------------------------------------------------------------ Credit Ledger
\* UPDATE users SET credits = credits - n WHERE id = u AND credits >= n
reserve_credits_atomic_unchecked(balance, amount) ==
    [ok |-> balance > 0, credits |-> IF balance > 0 THEN balance - amount ELSE balance]

reserve_credits_atomic(balance, amount) ==
    [ok |-> balance >= amount,
     credits |-> IF balance >= amount THEN balance - amount ELSE balance]

\* UPDATE users SET credits = credits + n WHERE id = u
refund_credits(balance, amount) == balance + amount

\* --------------------------------------------------------- Transcript Store
UserMessage(id, content) ==
    [id |-> id, role |-> "user", content |-> content,
     stage1 |-> Null, stage1_5 |-> Null, stage2 |-> Null, stage3 |-> NullText,
     is_rerun |-> FALSE, parent_message_id |-> NoMsg,
     revision_number |-> 0, created_at |-> id]

AllMessages == UNION {{messages[d][i] : i \in 1..Len(messages[d])} : d \in Convs}
MsgsOf(d) == {messages[d][i] : i \in 1..Len(messages[d])}
AnswerRows == {m \in AllMessages : m.role = "assistant"}

Max(S) == CHOOSE x \in S : \A y \in S : y <= x

\* a count that looks only at the reruns of p, not at p itself
next_revision_of_reruns(p) ==
    LET rows == {m \in AllMessages : m.parent_message_id = p}
    IN  IF rows = {} THEN 1 ELSE Max({m.revision_number : m \in rows}) + 1

\* SELECT COALESCE(MAX(revision_number), 0) + 1 WHERE parent_message_id = p OR id = p
next_revision(p) ==
    LET rows == {m \in AllMessages : m.parent_message_id = p \/ m.id = p}
    IN  IF rows = {} THEN 1 ELSE Max({m.revision_number : m \in rows}) + 1

\* the row add_assistant_message_complete inserts
AssistantMessage(id, t, s1, s15, s2, s3) ==
    [id |-> id, role |-> "assistant", content |-> NullText,
     stage1 |-> s1, stage1_5 |-> IF s15 # {} THEN s15 ELSE Null,
     stage2 |-> s2, stage3 |-> s3,
     is_rerun |-> tasks[t].is_rerun,
     parent_message_id |-> tasks[t].parent_message_id,
     revision_number |->
        IF tasks[t].is_rerun /\ tasks[t].parent_message_id # NoMsg
        THEN next_revision(tasks[t].parent_message_id) ELSE 0,
     created_at |-> id]

Last(s) == s[Len(s)]

\* get_latest_assistant_message: the newest assistant row with stage3 IS NOT NULL
AnswerIdx(d) ==
    {i \in 1..Len(messages[d]) :
        messages[d][i].role = "assistant" /\ messages[d][i].stage3 # NullText}
HasLatestAssistant(d) == AnswerIdx(d) # {}
get_latest_assistant_message(d) == messages[d][Max(AnswerIdx(d))]

\* get_orphaned_user_message: the last row of the conversation, if it is a user row
HasOrphan(d) == Len(messages[d]) > 0 /\ Last(messages[d]).role = "user"
get_orphaned_user_message(d) == Last(messages[d])

\* get_original_user_message: the first user row
UserIdx(d) == {i \in 1..Len(messages[d]) : messages[d][i].role = "user"}
HasOriginal(d) == UserIdx(d) # {}

\* get_message_by_id(conversation_id, message_id)
HasMessage(d, id) == \E m \in MsgsOf(d) : m.id = id
get_message_by_id(d, id) == CHOOSE m \in MsgsOf(d) : m.id = id

RemoveId(s, id) == SelectSeq(s, LAMBDA m : m.id # id)

\* ------------------------------------------------------- Session Dispatcher
ADMIN_EMAILS == {}
has_unlimited(u) == has_permission(role[u], "unlimited_credits") \/ u \in ADMIN_EMAILS

IdleSlots == {t \in TaskIds : tasks[t].pc = "idle"}

FreeSlot == CHOOSE t \in IdleSlots : \A x \in IdleSlots : t <= x

\* asyncio.create_task(_process_decision_request(...)); _active_tasks[d] = task
Spawn(t, rec) ==
    /\ tasks' = [tasks EXCEPT ![t] = rec]
    /\ active_tasks' = [active_tasks EXCEPT ![rec.conversation_id] = t]

\* send_message_stream, the request that is accepted.  Its awaits before
\* create_task are one read (get_conversation) and the one-statement reservation,
\* so the handler is one step.  retry names the orphaned Question whose text the
\* client re-sends after retry_message (NoMsg for a fresh submit); the handler
\* does not see it, the task record keeps it as history.
Submit(u, d, c, m, files, retry) ==
    LET mode == NormalizeMode(m)
        cost == credit_cost(mode) + (IF files THEN FILE_UPLOAD_CREDIT_COST ELSE 0)
        r == reserve_credits_atomic(credits[u], cost)
    IN  /\ owner[d] = u
        /\ has_unlimited(u) \/ r.ok
        /\ IdleSlots # {}
        /\ retry # NoMsg =>
              /\ HasMessage(d, retry)
              /\ get_message_by_id(d, retry).role = "user"
              /\ get_message_by_id(d, retry).content = c
        /\ credits' = IF has_unlimited(u) THEN credits
                      ELSE [credits EXCEPT ![u] = r.credits]
        /\ Spawn(FreeSlot,
                 [IdleTask EXCEPT !.pc = "spawned", !.conversation_id = d,
                     !.user_id = u, !.content = c, !.mode = mode,
                     !.retry_of = retry,
                     !.is_first_message = (Len(messages[d]) = 0),
                     !.has_files = files, !.reader = "attached",
                     !.reserved = IF has_unlimited(u) THEN 0 ELSE cost,
                     !.balance_before = credits[u]])
        /\ UNCHANGED <<b0, call, messages, next_id, active_status>>

\* send_message_stream for a follow-up that names the Answer it responds to:
\* msg_request.source_message_id is handed to the task as it came
SubmitWithSource(u, d, c, m, source) ==
    LET mode == NormalizeMode(m)
        cost == credit_cost(mode)
        r == reserve_credits_atomic(credits[u], cost)
    IN  /\ owner[d] = u
        /\ has_unlimited(u) \/ r.ok
        /\ IdleSlots # {}
        /\ credits' = IF has_unlimited(u) THEN credits
                      ELSE [credits EXCEPT ![u] = r.credits]
        /\ Spawn(FreeSlot,
                 [IdleTask EXCEPT !.pc = "spawned", !.conversation_id = d,
                     !.user_id = u, !.content = c, !.mode = mode,
                     !.source_message_id = source,
                     !.is_first_message = (Len(messages[d]) = 0),
                     !.reader = "attached",
                     !.reserved = IF has_unlimited(u) THEN 0 ELSE cost,
                     !.balance_before = credits[u]])
        /\ UNCHANGED <<b0, call, messages, next_id, active_status>>

\* send_message_stream refusing before any ledger operation: 400 for a query over
\* MAX_QUERY_LENGTH or for files that fail validate_files
SubmitInvalid(u, d, too_long, bad_files) ==
    /\ ~(~too_long /\ ~bad_files)
    /\ UNCHANGED vars

\* send_message_stream answering 404: get_conversation finds no row of this owner
SubmitNotFound(u, d) ==
    /\ owner[d] # u
    /\ UNCHANGED vars

\* send_message_stream answering 402: reserve_credits_atomic raised
\* InsufficientCreditsError
SubmitInsufficient(u, d, m, files) ==
    LET mode == NormalizeMode(m)
        cost == credit_cost(mode) + (IF files THEN FILE_UPLOAD_CREDIT_COST ELSE 0)
    IN  /\ owner[d] = u
        /\ ~has_unlimited(u)
        /\ ~reserve_credits_atomic(credits[u], cost).ok
        /\ UNCHANGED vars

\* the checks send_message_stream makes before it reserves, in its order: the
\* query length, the files (validate_files, process_files), the owner's row
send_message_stream_checks(u, d, too_long, bad_files) ==
    IF too_long THEN "http_400"
    ELSE IF bad_files THEN "http_400"
    ELSE IF owner[d] # u THEN "http_404"
    ELSE "pass"

\* a handler that reserves the cost of a Quick request before it checks
SubmitRefused_reserve_first(u, d, too_long, bad_files) ==
    /\ send_message_stream_checks(u, d, too_long, bad_files) # "pass"
    /\ IdleSlots # {}
    /\ credits' = [credits EXCEPT ![u] = reserve_credits_atomic(@, 1).credits]
    /\ tasks' = [tasks EXCEPT ![FreeSlot] =
                    [IdleTask EXCEPT
                        !.pc = send_message_stream_checks(u, d, too_long, bad_files),
                        !.conversation_id = d, !.user_id = u,
                        !.balance_before = credits[u]]]
    /\ UNCHANGED <<b0, call, messages, next_id, active_tasks, active_status>>

\* send_message_stream refusing a request at one of these checks: the handler
\* is at its raise HTTPException(400 or 404)
SubmitRefused(u, d, too_long, bad_files) ==
    /\ send_message_stream_checks(u, d, too_long, bad_files) # "pass"
    /\ IdleSlots # {}
    /\ tasks' = [tasks EXCEPT ![FreeSlot] =
                    [IdleTask EXCEPT
                        !.pc = send_message_stream_checks(u, d, too_long, bad_files),
                        !.conversation_id = d, !.user_id = u,
                        !.balance_before = credits[u]]]
    /\ UNCHANGED <<credits, b0, call, messages, next_id, active_tasks, active_status>>

\* the 400 or 404 response is sent
RespondClientError(t) ==
    /\ tasks[t].pc \in {"http_400", "http_404"}
    /\ tasks' = [tasks EXCEPT ![t] = IdleTask]
    /\ UNCHANGED <<credits, b0, call, messages, next_id, active_tasks, active_status>>

\* reserve_credits_atomic when its UPDATE matches no row: the handler is left at
\* the await of the SELECT that reads the balance for the error
ReserveRefused(u, d, m, files) ==
    LET mode == NormalizeMode(m)
        cost == credit_cost(mode) + (IF files THEN FILE_UPLOAD_CREDIT_COST ELSE 0)
    IN  /\ owner[d] = u
        /\ ~has_unlimited(u)
        /\ ~reserve_credits_atomic(credits[u], cost).ok
        /\ IdleSlots # {}
        /\ tasks' = [tasks EXCEPT ![FreeSlot] =
                        [IdleTask EXCEPT !.pc = "reserve_select", !.conversation_id = d,
                            !.user_id = u, !.mode = mode, !.has_files = files,
                            !.balance_before = credits[u]]]
        /\ UNCHANGED <<credits, b0, call, messages, next_id, active_tasks, active_status>>

\* InsufficientCreditsError(required=amount, available=current or 0), current
\* being what SELECT credits FROM users returns now
InsufficientCreditsError(t) ==
    [required |-> credit_cost(tasks[t].mode)
                     + (IF tasks[t].has_files THEN FILE_UPLOAD_CREDIT_COST ELSE 0),
     available |-> credits[tasks[t].user_id]]

\* the SELECT returns, reserve_credits_atomic raises and send_message_stream
\* answers 402 with e.required and e.available
ReserveSelect(t) ==
    /\ tasks[t].pc = "reserve_select"
    /\ InsufficientCreditsError(t).required \in Nat
    /\ tasks' = [tasks EXCEPT ![t] = IdleTask]
    /\ UNCHANGED <<credits, b0, call, messages, next_id, active_tasks, active_status>>

\* rerun_decision, the request that is accepted
Rerun(u, d, m) ==
    LET mode == NormalizeMode(m)
        cost == credit_cost(mode)
        r == reserve_credits_atomic(credits[u], cost)
    IN  /\ owner[d] = u
        /\ HasOriginal(d)
        /\ HasLatestAssistant(d)
        /\ has_unlimited(u) \/ r.ok
        /\ IdleSlots # {}
        /\ credits' = IF has_unlimited(u) THEN credits
                      ELSE [credits EXCEPT ![u] = r.credits]
        /\ Spawn(FreeSlot,
                 [IdleTask EXCEPT !.pc = "spawned", !.conversation_id = d,
                     !.user_id = u,
                     !.content = messages[d][CHOOSE i \in UserIdx(d) :
                                               \A j \in UserIdx(d) : i <= j].content,
                     !.mode = mode, !.is_rerun = TRUE, !.reader = "attached",
                     \* latest_message has no parent_message_id key: the parent is
                     \* always the latest Answer
                     !.parent_message_id = get_latest_assistant_message(d).id,
                     !.reserved = IF has_unlimited(u) THEN 0 ELSE cost,
                     !.balance_before = credits[u]])
        /\ UNCHANGED <<b0, call, messages, next_id, active_status>>

\* rerun_decision, the request that is refused (404, 400, 402)
RerunRejected(u, d, m) ==
    /\ ~(/\ owner[d] = u
          /\ HasOriginal(d)
          /\ HasLatestAssistant(d)
          /\ (IF has_unlimited(u) THEN TRUE
              ELSE reserve_credits_atomic(credits[u], credit_cost(NormalizeMode(m))).ok))
    /\ UNCHANGED vars

\* cancel_processing: task.cancel(), then both registry entries are popped
cancel_processing(u, d) ==
    /\ owner[d] = u
    /\ active_tasks[d] # NoTask
    /\ tasks' = [tasks EXCEPT ![active_tasks[d]].cancel_requested =
                    (tasks[active_tasks[d]].pc # "ended")]
    /\ active_tasks' = [active_tasks EXCEPT ![d] = NoTask]
    /\ active_status' = [active_status EXCEPT ![d] = "none"]
    /\ UNCHANGED <<credits, b0, call, messages, next_id>>

\* cancel_processing answering 404 or {"cancelled": False}
CancelRejected(u, d) ==
    /\ ~(owner[d] = u /\ active_tasks[d] # NoTask)
    /\ UNCHANGED vars

\* latest_assistant.get("stage3"): the parsed column is not None and not empty
stage3_truthy(m) == m.stage3 # NullText /\ m.stage3 # ""

\* latest_assistant.get("stage1") or latest_assistant.get("stage2")
stages_truthy(m) ==
    \/ m.stage1 # Null /\ m.stage1 # {}
    \/ m.stage2 # Null /\ m.stage2 # {}

\* a status that looks for a finished Answer before it looks for a trailing Question
get_conversation_status_answer_first(d) ==
    IF active_tasks[d] # NoTask
    THEN [processing |-> TRUE, orphaned |-> FALSE, incomplete |-> FALSE,
          orphaned_message |-> <<>>]
    ELSE IF HasLatestAssistant(d)
    THEN [processing |-> FALSE, orphaned |-> FALSE, incomplete |-> FALSE,
          orphaned_message |-> <<>>]
    ELSE IF HasOrphan(d)
    THEN [processing |-> FALSE, orphaned |-> TRUE, incomplete |-> FALSE,
          orphaned_message |->
             <<get_orphaned_user_message(d).id, get_orphaned_user_message(d).content,
               get_orphaned_user_message(d).created_at>>]
    ELSE [processing |-> FALSE, orphaned |-> FALSE, incomplete |-> FALSE,
          orphaned_message |-> <<>>]

\* get_conversation_status for the owner
get_conversation_status(d) ==
    IF active_tasks[d] # NoTask
    THEN [processing |-> TRUE, orphaned |-> FALSE, incomplete |-> FALSE,
          orphaned_message |-> <<>>]
    ELSE IF HasOrphan(d)
    THEN [processing |-> FALSE, orphaned |-> TRUE, incomplete |-> FALSE,
          orphaned_message |->
             <<get_orphaned_user_message(d).id, get_orphaned_user_message(d).content,
               get_orphaned_user_message(d).created_at>>]
    ELSE IF HasLatestAssistant(d) /\ stage3_truthy(get_latest_assistant_message(d))
    THEN [processing |-> FALSE, orphaned |-> FALSE, incomplete |-> FALSE,
          orphaned_message |-> <<>>]
    ELSE IF HasLatestAssistant(d) /\ stages_truthy(get_latest_assistant_message(d))
    THEN [processing |-> FALSE, orphaned |-> FALSE, incomplete |-> TRUE,
          orphaned_message |-> <<>>]
    ELSE [processing |-> FALSE, orphaned |-> FALSE, incomplete |-> FALSE,
          orphaned_message |-> <<>>]

\* the status request itself; the pops of its completed branch run only when the
\* registry has no entry, so it changes nothing
StatusRequest(u, d) ==
    /\ owner[d] = u => get_conversation_status(d).processing \in BOOLEAN
    /\ UNCHANGED vars

\* retry_message: verifies the target and returns {"retry_initiated": True, content,
\* mode}; it deletes nothing and spawns nothing
retry_message(u, d, id) ==
    /\ owner[d] = u
    /\ HasMessage(d, id)
    /\ get_message_by_id(d, id).role = "user"
    /\ UNCHANGED vars

\* delete_message -> delete_user_message: only a user row of this conversation
delete_message(u, d, id) ==
    /\ owner[d] = u
    /\ HasMessage(d, id)
    /\ get_message_by_id(d, id).role = "user"
    /\ messages' = [messages EXCEPT ![d] = RemoveId(messages[d], id)]
    /\ UNCHANGED <<credits, b0, call, next_id, tasks, active_tasks, active_status>>

\* a disconnect that is propagated to the task the generator reads from
ReaderDropped_cancelling(t) ==
    /\ tasks[t].reader = "attached"
    /\ tasks[t].pc \notin {"idle", "ended"}
    /\ tasks' = [tasks EXCEPT ![t].reader = "dropped", ![t].cancel_requested = TRUE]
    /\ UNCHANGED <<credits, b0, call, messages, next_id, active_tasks, active_status>>

\* event_generator cancelled by the client's disconnect: CancelledError is caught
\* in the generator, nothing else is touched
ReaderDropped(t) ==
    /\ tasks[t].reader = "attached"
    /\ tasks[t].pc \notin {"idle", "ended"}
    /\ tasks' = [tasks EXCEPT ![t].reader = "dropped"]
    /\ UNCHANGED <<credits, b0, call, messages, next_id, active_tasks, active_status>>

\* -------------------------------------------------------- Pipeline Scheduler
Sentinel == "None"                   \* event_queue.put(None)

\* the synchronous code between two awaits: the events it enqueues, the stage it
\* records in _active_status and the await it stops at
Stage3Prelude(q) ==
    [q |-> q \o <<"stage_preparing", "stage3_start">>, status |-> "stage3",
     pc |-> "stage3"]

\* a prelude that starts the peer review in every mode
Stage2Prelude_in_every_mode(mode, q) ==
    [q |-> q \o <<"stage_preparing", "stage2_start">>, status |-> "stage2",
     pc |-> "stage2"]

Stage2Prelude(mode, q) ==
    IF enable_peer_review(mode)
    THEN [q |-> q \o <<"stage_preparing", "stage2_start">>, status |-> "stage2",
          pc |-> "stage2"]
    ELSE Stage3Prelude(q \o <<"stage2_skipped">>)

AfterStage1(mode, res, q) ==
    IF enable_cross_review(mode) /\ res # {}
    THEN [q |-> q \o <<"stage1_complete", "stage_preparing", "stage1_5_start">>,
          status |-> "stage1_5", pc |-> "stage1_5"]
    ELSE IF ~enable_cross_review(mode)
    THEN Stage2Prelude(mode, q \o <<"stage1_complete", "stage1_5_skipped">>)
    ELSE Stage2Prelude(mode, q \o <<"stage1_complete">>)

Stage1Prelude(q) ==
    [q |-> q \o <<"stage1_start">>, status |-> "stage1", pc |-> "stage1"]

\* run_started, the title subtask, and the choice of the effective query
AfterQuestion(r) ==
    LET q == r.event_queue \o <<"run_started">>
        follow_up == ~r.is_rerun /\ ~r.is_first_message
    IN  IF follow_up
        THEN [q |-> q, status |-> "keep", pc |-> "get_previous_decision"]
        ELSE Stage1Prelude(q)

SetStatus(d, st) ==
    active_status' = IF st = "keep" THEN active_status
                     ELSE [active_status EXCEPT ![d] = st]

\* a cancel() that does not reach a heartbeat whose sleep has already finished
heartbeat_cancel_unless_woken(state) ==
    IF state \in {"created", "sleeping"} THEN "cancelled" ELSE state

\* heartbeat.cancel(): a companion that has not run yet never runs, and one
\* suspended at asyncio.sleep gets CancelledError there, also when the sleep has
\* finished and the wakeup is still pending; _heartbeat_task then returns
heartbeat_cancel(state) ==
    IF state \in {"created", "sleeping", "woken"} THEN "cancelled" ELSE state

\* the companions of run r once it goes from r.pc to the await at pc: the
\* finally of the phase it leaves cancels that phase's heartbeat, and
\* asyncio.create_task(_heartbeat_task(...)) precedes the await of a phase
HeartbeatsAfter(r, pc) ==
    [p \in PhasePcs |->
        IF p = pc THEN "created"
        ELSE IF p = r.pc THEN heartbeat_cancel(r.heartbeats[p])
        ELSE r.heartbeats[p]]

\* resume task t with its locals changed to r and continue as step says
Continue(t, r, step) ==
    /\ tasks' = [tasks EXCEPT ![t] =
                    [r EXCEPT !.event_queue = step.q, !.pc = step.pc,
                              !.heartbeats = HeartbeatsAfter(r, step.pc)]]
    /\ SetStatus(r.conversation_id, step.status)

\* finally: event_queue.put(None); _active_tasks.pop(d); _active_status.pop(d)
Finally(t, r) ==
    /\ tasks' = [tasks EXCEPT ![t] =
                    [r EXCEPT !.event_queue = r.event_queue \o <<Sentinel>>,
                              !.pc = "ended"]]
    /\ active_tasks' = [active_tasks EXCEPT ![r.conversation_id] = NoTask]
    /\ active_status' = [active_status EXCEPT ![r.conversation_id] = "none"]

Runnable(t, at) == tasks[t].pc = at /\ ~tasks[t].cancel_requested

\* the first step of the coroutine, up to its first await
Start(t) ==
    /\ Runnable(t, "spawned")
    /\ IF tasks[t].is_rerun
       THEN /\ Continue(t, tasks[t], AfterQuestion(tasks[t]))
            /\ UNCHANGED active_tasks
       ELSE /\ tasks' = [tasks EXCEPT ![t].pc = "add_user_message"]
            /\ UNCHANGED <<active_tasks, active_status>>
    /\ UNCHANGED <<credits, b0, call, messages, next_id>>

\* a Scheduler that also inserts a pending Answer row, to be filled in stage by stage
AddUserMessage_with_placeholder(t) ==
    /\ Runnable(t, "add_user_message")
    /\ messages' = [messages EXCEPT ![tasks[t].conversation_id] =
                       Append(Append(@, UserMessage(next_id, tasks[t].content)),
                              AssistantMessage(next_id + 1, t, Null, {}, Null, NullText))]
    /\ next_id' = next_id + 2
    /\ LET r == [tasks[t] EXCEPT !.question_id = next_id,
                    !.title_task = IF tasks[t].is_first_message
                                   THEN "running" ELSE "none"]
       IN  Continue(t, r, AfterQuestion(r))
    /\ UNCHANGED <<credits, b0, call, active_tasks>>

\* storage.add_user_message, then run_started and the title subtask
AddUserMessage(t) ==
    /\ Runnable(t, "add_user_message")
    /\ messages' = [messages EXCEPT ![tasks[t].conversation_id] =
                       Append(@, UserMessage(next_id, tasks[t].content))]
    /\ next_id' = next_id + 1
    /\ LET r == [tasks[t] EXCEPT !.question_id = next_id,
                    !.title_task = IF tasks[t].is_first_message
                                   THEN "running" ELSE "none"]
       IN  Continue(t, r, AfterQuestion(r))
    /\ UNCHANGED <<credits, b0, call, active_tasks>>

\* get_stage3_by_message_id: SELECT stage3 FROM messages WHERE id = $1 AND
\* role = 'assistant' AND stage3 IS NOT NULL (no conversation in the WHERE clause)
get_stage3_by_message_id(id) ==
    IF \E m \in AllMessages : m.id = id /\ m.role = "assistant" /\ m.stage3 # NullText
    THEN id ELSE NoMsg

\* get_last_stage3_response: the newest finished Answer of the conversation
get_last_stage3_response(d) ==
    IF HasLatestAssistant(d) THEN get_latest_assistant_message(d).id ELSE NoMsg

\* the follow-up reads the previous decision: that of source_message_id when the
\* request names one, else the latest of its own conversation
GetPreviousDecision(t) ==
    /\ Runnable(t, "get_previous_decision")
    /\ Continue(t, [tasks[t] EXCEPT !.previous_decision =
                       IF tasks[t].source_message_id # NoMsg
                       THEN get_stage3_by_message_id(tasks[t].source_message_id)
                       ELSE get_last_stage3_response(tasks[t].conversation_id)],
                Stage1Prelude(tasks[t].event_queue))
    /\ UNCHANGED <<credits, b0, call, messages, next_id, active_tasks>>

\* stage1_collect_responses: the endpoints that answered
Stage1(t) ==
    /\ Runnable(t, "stage1")
    /\ \E res \in SUBSET Pool :
          Continue(t, [tasks[t] EXCEPT !.stage1_results = res],
                   AfterStage1(tasks[t].mode, res, tasks[t].event_queue))
    /\ UNCHANGED <<credits, b0, call, messages, next_id, active_tasks>>

\* stage1_5_cross_review: every endpoint of the pool is asked to refine
Stage1_5(t) ==
    /\ Runnable(t, "stage1_5")
    /\ \E res \in SUBSET Pool :
          Continue(t, [tasks[t] EXCEPT !.stage1_5_results = res],
                   Stage2Prelude(tasks[t].mode,
                                 tasks[t].event_queue \o <<"stage1_5_complete">>))
    /\ UNCHANGED <<credits, b0, call, messages, next_id, active_tasks>>

\* stage2_collect_rankings and calculate_aggregate_rankings; the rankings are
\* data that no later step of the Scheduler branches on
Stage2Outcomes == {Pool}

Stage2(t) ==
    /\ Runnable(t, "stage2")
    /\ \E res \in Stage2Outcomes :
          Continue(t, [tasks[t] EXCEPT !.stage2_results = res],
                   Stage3Prelude(tasks[t].event_queue \o <<"stage2_complete">>))
    /\ UNCHANGED <<credits, b0, call, messages, next_id, active_tasks>>

\* stage3_synthesize_final always returns a {"model", "response"} dict: the
\* synthesis, or a canned text when the moderator failed or echoed twice
Stage3Outcomes == {"synthesis"}

Stage3(t) ==
    /\ Runnable(t, "stage3")
    /\ \E res \in Stage3Outcomes :
          tasks' = [tasks EXCEPT ![t].stage3_result = res, ![t].pc = "commit",
                                 ![t].heartbeats = HeartbeatsAfter(tasks[t], "commit")]
    /\ UNCHANGED <<credits, b0, call, messages, next_id, active_tasks, active_status>>

\* the INSERT of add_assistant_message_complete for task t
InsertAnswer(t) ==
    /\ messages' = [messages EXCEPT ![tasks[t].conversation_id] =
                       Append(@, AssistantMessage(next_id, t, tasks[t].stage1_results,
                                    tasks[t].stage1_5_results, tasks[t].stage2_results,
                                    tasks[t].stage3_result))]
    /\ next_id' = next_id + 1

\* a reordering that enqueues stage3_complete before the commit
Commit_event_first(t) ==
    /\ Runnable(t, "commit")
    /\ InsertAnswer(t)
    /\ tasks' = [tasks EXCEPT ![t].message_id = next_id,
                    ![t].commit_at = Len(tasks[t].event_queue) + 1,
                    ![t].event_queue = @ \o <<"stage3_complete">>,
                    ![t].pc = "save_context_summary"]
    /\ UNCHANGED <<credits, b0, call, active_tasks, active_status>>

\* message_id = await storage.add_assistant_message_complete(...), then the
\* stage3_complete event; commit_at records how many events were enqueued before
Commit(t) ==
    /\ Runnable(t, "commit")
    /\ InsertAnswer(t)
    /\ tasks' = [tasks EXCEPT ![t].message_id = next_id,
                    ![t].commit_at = Len(tasks[t].event_queue),
                    ![t].event_queue = @ \o <<"stage3_complete">>,
                    ![t].pc = "save_context_summary"]
    /\ UNCHANGED <<credits, b0, call, active_tasks, active_status>>

\* add_assistant_message_complete of a rerun, first statement: the SELECT of
\* COALESCE(MAX(revision_number), 0) + 1 into the local revision_number
CommitSelect(t) ==
    /\ Runnable(t, "commit")
    /\ tasks[t].is_rerun /\ tasks[t].parent_message_id # NoMsg
    /\ tasks' = [tasks EXCEPT ![t].revision_number =
                                 next_revision(tasks[t].parent_message_id),
                             ![t].pc = "commit_insert"]
    /\ UNCHANGED <<credits, b0, call, messages, next_id, active_tasks, active_status>>

\* add_assistant_message_complete of a rerun, second statement: the INSERT with
\* the revision_number selected before, then the stage3_complete event
CommitInsert(t) ==
    /\ Runnable(t, "commit_insert")
    /\ messages' = [messages EXCEPT ![tasks[t].conversation_id] =
                       Append(@, [AssistantMessage(next_id, t, tasks[t].stage1_results,
                                     tasks[t].stage1_5_results, tasks[t].stage2_results,
                                     tasks[t].stage3_result)
                                  EXCEPT !.revision_number = tasks[t].revision_number])]
    /\ next_id' = next_id + 1
    /\ tasks' = [tasks EXCEPT ![t].message_id = next_id,
                    ![t].commit_at = Len(tasks[t].event_queue),
                    ![t].event_queue = @ \o <<"stage3_complete">>,
                    ![t].pc = "save_context_summary"]
    /\ UNCHANGED <<credits, b0, call, active_tasks, active_status>>

\* build_context_summary and storage.save_context_summary; an exception here is
\* logged and swallowed
SaveContextSummary(t) ==
    /\ Runnable(t, "save_context_summary")
    /\ tasks' = [tasks EXCEPT ![t].pc =
                    IF tasks[t].title_task = "running" THEN "await_title"
                    ELSE "get_user_credits"]
    /\ UNCHANGED <<credits, b0, call, messages, next_id, active_tasks, active_status>>

\* title = await title_task
AwaitTitle(t) ==
    /\ Runnable(t, "await_title")
    /\ tasks' = [tasks EXCEPT ![t].title_task = "awaited",
                    ![t].pc = "update_conversation_title"]
    /\ UNCHANGED <<credits, b0, call, messages, next_id, active_tasks, active_status>>

\* storage.update_conversation_title, then title_complete
UpdateConversationTitle(t) ==
    /\ Runnable(t, "update_conversation_title")
    /\ tasks' = [tasks EXCEPT ![t].event_queue = @ \o <<"title_complete">>,
                    ![t].pc = "get_user_credits"]
    /\ UNCHANGED <<credits, b0, call, messages, next_id, active_tasks, active_status>>

\* a success path that also refunds in its last step
Complete_refunding(t) ==
    /\ Runnable(t, "get_user_credits")
    /\ credits' = [credits EXCEPT ![tasks[t].user_id] =
                      refund_credits(@, credit_cost(tasks[t].mode))]
    /\ Finally(t, [tasks[t] EXCEPT !.event_queue = @ \o <<"complete">>,
                      !.refunded = @ + credit_cost(tasks[t].mode)])
    /\ UNCHANGED <<b0, call, messages, next_id>>

\* storage.get_user_credits, the complete event, then the finally block
Complete(t) ==
    /\ Runnable(t, "get_user_credits")
    /\ Finally(t, [tasks[t] EXCEPT !.event_queue = @ \o <<"complete">>])
    /\ UNCHANGED <<credits, b0, call, messages, next_id>>

\* the awaits inside the try block at which an Exception can surface
RaisingPcs == {"add_user_message", "get_previous_decision", "stage1", "stage1_5",
               "stage2", "stage3", "commit", "await_title",
               "update_conversation_title", "get_user_credits"}

\* the awaited operation raises an Exception: control enters `except Exception`
Raise(t) ==
    /\ tasks[t].pc \in RaisingPcs
    /\ ~tasks[t].cancel_requested
    /\ tasks' = [tasks EXCEPT ![t].pc = "refund",
                             ![t].heartbeats = HeartbeatsAfter(tasks[t], "refund")]
    /\ UNCHANGED <<credits, b0, call, messages, next_id, active_tasks, active_status>>

\* except Exception: refund_credits(user_id, mode_config['credit_cost']) (a failure
\* of the refund is logged and swallowed), the error event, then finally
Refund(t) ==
    /\ Runnable(t, "refund")
    /\ \E refund_ok \in BOOLEAN :
          LET c == IF refund_ok THEN credit_cost(tasks[t].mode) ELSE 0
          IN  /\ credits' = [credits EXCEPT ![tasks[t].user_id] = refund_credits(@, c)]
              /\ Finally(t, [tasks[t] EXCEPT !.event_queue = @ \o <<"error">>,
                                !.refunded = @ + c])
    /\ UNCHANGED <<b0, call, messages, next_id>>

\* the awaits whose operation is a write that the database may have applied
\* although the awaiting task got CancelledError instead of the result
WritePcs == {"add_user_message", "commit", "refund"}

\* task.cancel() takes effect at the await the task is suspended at.
\* CancelledError is a BaseException: `except Exception` does not catch it, only
\* the finally block runs.  A task cancelled before its first step never enters
\* the try block.
CancelDelivered(t) ==
    /\ tasks[t].cancel_requested
    /\ tasks[t].pc \notin {"idle", "ended"}
    /\ IF tasks[t].pc = "spawned"
       THEN /\ tasks' = [tasks EXCEPT ![t].pc = "ended"]
            /\ UNCHANGED <<credits, messages, next_id, active_tasks, active_status>>
       ELSE \E applied \in BOOLEAN :
            /\ applied => tasks[t].pc \in WritePcs
            /\ IF applied /\ tasks[t].pc = "add_user_message"
               THEN /\ messages' = [messages EXCEPT ![tasks[t].conversation_id] =
                                Append(@, UserMessage(next_id, tasks[t].content))]
                    /\ next_id' = next_id + 1
               ELSE IF applied /\ tasks[t].pc = "commit"
               THEN InsertAnswer(t)
               ELSE UNCHANGED <<messages, next_id>>
            /\ LET c == IF applied /\ tasks[t].pc = "refund"
                        THEN credit_cost(tasks[t].mode) ELSE 0
               IN  /\ credits' = [credits EXCEPT ![tasks[t].user_id] =
                                     refund_credits(@, c)]
                   /\ Finally(t, [tasks[t] EXCEPT
                          !.heartbeats = HeartbeatsAfter(tasks[t], "ended"),
                          !.refunded = @ + c,
                          !.question_id = IF applied /\ tasks[t].pc = "add_user_message"
                                          THEN next_id ELSE @,
                          !.title_task = IF @ = "running" /\ tasks[t].pc = "await_title"
                                         THEN "cancelled" ELSE @])
    /\ UNCHANGED <<b0, call>>

\* ------------------------------------------------------ heartbeat companions
\* {'type': 'heartbeat', 'operation': operation, 'elapsed_seconds': elapsed},
\* by the operation the phase's _heartbeat_task is created with
HeartbeatEvent(p) ==
    IF p = "stage1" THEN "heartbeat: Collecting opinions"
    ELSE IF p = "stage1_5" THEN "heartbeat: Cross-review refinement"
    ELSE IF p = "stage2" THEN "heartbeat: Peer review"
    ELSE "heartbeat: Final synthesis"

Beats(q, p) == Len(SelectSeq(q, LAMBDA e : e = HeartbeatEvent(p)))

\* the first step of _heartbeat_task, up to await asyncio.sleep(interval)
HeartbeatStart(t, p) ==
    /\ tasks[t].heartbeats[p] = "created"
    /\ tasks' = [tasks EXCEPT ![t].heartbeats[p] = "sleeping"]
    /\ UNCHANGED <<credits, b0, call, messages, next_id, active_tasks, active_status>>

\* the sleep's timer fires: the wakeup of the companion is scheduled
HeartbeatTimer(t, p) ==
    /\ tasks[t].heartbeats[p] = "sleeping"
    /\ tasks' = [tasks EXCEPT ![t].heartbeats[p] = "woken"]
    /\ UNCHANGED <<credits, b0, call, messages, next_id, active_tasks, active_status>>

\* the companion resumes after its sleep: queue.put of the heartbeat event (the
\* queue is unbounded, the put does not suspend), then the next sleep
HeartbeatPut(t, p) ==
    /\ tasks[t].heartbeats[p] = "woken"
    /\ Beats(tasks[t].event_queue, p) < MaxHeartbeats
    /\ tasks' = [tasks EXCEPT ![t].heartbeats[p] = "sleeping",
                             ![t].event_queue = Append(@, HeartbeatEvent(p))]
    /\ UNCHANGED <<credits, b0, call, messages, next_id, active_tasks, active_status>>

\* --------------------------------- the Store's other operations on messages
\* the row add_assistant_message inserts: stage1, stage2 and stage3 as given,
\* every other column at its default
LegacyAssistantMessage(id, s1, s2, s3) ==
    [id |-> id, role |-> "assistant", content |-> NullText,
     stage1 |-> s1, stage1_5 |-> Null, stage2 |-> s2, stage3 |-> s3,
     is_rerun |-> FALSE, parent_message_id |-> NoMsg,
     revision_number |-> 0, created_at |-> id]

\* the row create_pending_assistant_message inserts: no stage column is given
PendingAssistantMessage(id) == LegacyAssistantMessage(id, Null, Null, NullText)

\* storage.add_user_message called on its own
add_user_message(d, c) ==
    /\ messages' = [messages EXCEPT ![d] = Append(@, UserMessage(next_id, c))]
    /\ next_id' = next_id + 1
    /\ UNCHANGED <<credits, b0, call, tasks, active_tasks, active_status>>

\* storage.add_assistant_message called on its own
add_assistant_message(d, s1, s2, s3) ==
    /\ messages' = [messages EXCEPT ![d] =
                       Append(@, LegacyAssistantMessage(next_id, s1, s2, s3))]
    /\ next_id' = next_id + 1
    /\ UNCHANGED <<credits, b0, call, tasks, active_tasks, active_status>>

\* storage.create_pending_assistant_message and
\* storage.create_pending_assistant_message_with_mode: RETURNING id
create_pending_assistant_message(d) ==
    /\ messages' = [messages EXCEPT ![d] = Append(@, PendingAssistantMessage(next_id))]
    /\ next_id' = next_id + 1
    /\ UNCHANGED <<credits, b0, call, tasks, active_tasks, active_status>>

STAGE_COLUMNS == {"stage1", "stage1_5", "stage2", "stage3"}

\* UPDATE messages SET <column> = data WHERE id = message_id
SetStage(m, stage, data) ==
    IF stage = "stage1" THEN [m EXCEPT !.stage1 = data]
    ELSE IF stage = "stage1_5" THEN [m EXCEPT !.stage1_5 = data]
    ELSE IF stage = "stage2" THEN [m EXCEPT !.stage2 = data]
    ELSE [m EXCEPT !.stage3 = data]

\* storage.update_assistant_message_stage: the UPDATE names the row by id alone
update_assistant_message_stage(message_id, stage, data) ==
    /\ stage \in STAGE_COLUMNS
    /\ messages' = [d \in Convs |->
                      [i \in 1..Len(messages[d]) |->
                          IF messages[d][i].id = message_id
                          THEN SetStage(messages[d][i], stage, data)
                          ELSE messages[d][i]]]
    /\ UNCHANGED <<credits, b0, call, next_id, tasks, active_tasks, active_status>>

\* the command tag of DELETE FROM messages WHERE role = 'assistant' AND
\* stage3 IS NULL
Incomplete(m) == m.role = "assistant" /\ m.stage3 = NullText
DeleteIncompleteTag == <<"DELETE", Cardinality({m \in AllMessages : Incomplete(m)})>>

\* a cleanup that deletes every assistant row
cleanup_all_assistant_rows ==
    /\ messages' = [d \in Convs |->
                      SelectSeq(messages[d], LAMBDA m : m.role # "assistant")]
    /\ call' = [op |-> "cleanup_incomplete_messages", input |-> <<>>,
                output |-> <<Last(DeleteIncompleteTag), Last(DeleteIncompleteTag) > 0>>]

\* cleanup_incomplete_messages: the DELETE, then count = int(result.split()[-1]);
\* the call keeps the count and whether it was logged (count > 0)
cleanup_incomplete_messages ==
    /\ messages' = [d \in Convs |->
                      SelectSeq(messages[d], LAMBDA m : ~Incomplete(m))]
    /\ call' = [op |-> "cleanup_incomplete_messages", input |-> <<>>,
                output |-> <<Last(DeleteIncompleteTag), Last(DeleteIncompleteTag) > 0>>]

\* lifespan at startup with DATABASE_URL set: init_database, then
\* cleanup_incomplete_messages; no request is served and no task exists yet
lifespan ==
    /\ \A t \in TaskIds : tasks[t].pc = "idle"
    /\ cleanup_incomplete_messages
    /\ UNCHANGED <<credits, b0, next_id, tasks, active_tasks, active_status>>

\* a deletion that never looks at the role of the row
delete_user_message_of_any_role(rows, id) ==
    IF ~(\E i \in 1..Len(rows) : rows[i].id = id)
    THEN [raised |-> "ValueError: Message not found", rows |-> rows]
    ELSE [raised |-> "none", rows |-> RemoveId(rows, id)]

\* storage.delete_user_message on the rows of the conversation: the SELECT by id
\* and conversation_id, the two checks, then DELETE ... AND role = 'user'
delete_user_message(rows, id) ==
    IF ~(\E i \in 1..Len(rows) : rows[i].id = id)
    THEN [raised |-> "ValueError: Message not found", rows |-> rows]
    ELSE IF (CHOOSE m \in {rows[i] : i \in 1..Len(rows)} : m.id = id).role # "user"
    THEN [raised |-> "ValueError: Can only delete user messages", rows |-> rows]
    ELSE [raised |-> "none",
          rows |-> SelectSeq(rows, LAMBDA m : ~(m.id = id /\ m.role = "user"))]

\* a direct call of storage.delete_user_message(d, id); call keeps the
\* arguments, the rows of d before the call, what the call raised and the rows
\* of d after it
DeleteUserMessage(d, id) ==
    /\ messages' = [messages EXCEPT ![d] = delete_user_message(messages[d], id).rows]
    /\ call' = [op |-> "delete_user_message", input |-> <<d, id, messages[d]>>,
                output |-> delete_user_message(messages[d], id)]
    /\ UNCHANGED <<credits, b0, next_id, tasks, active_tasks, active_status>>

\* ------------------------------------------- send_message, the one-shot path
\* send_message up to its first write: get_conversation, reserve_credits_atomic
\* of 1 credit.  The handler is a coroutine of its own: it takes a task record
\* for its locals and is not entered in _active_tasks.
send_message(u, d, c) ==
    LET r == reserve_credits_atomic(credits[u], 1)
    IN  /\ owner[d] = u
        /\ has_unlimited(u) \/ r.ok
        /\ IdleSlots # {}
        /\ credits' = IF has_unlimited(u) THEN credits
                      ELSE [credits EXCEPT ![u] = r.credits]
        /\ tasks' = [tasks EXCEPT ![FreeSlot] =
                 [IdleTask EXCEPT !.pc = "sm_add_user_message", !.conversation_id = d,
                     !.user_id = u, !.content = c, !.mode = "decide_please",
                     !.is_first_message = (Len(messages[d]) = 0),
                     !.reserved = IF has_unlimited(u) THEN 0 ELSE 1,
                     !.balance_before = credits[u]]]
        /\ UNCHANGED <<b0, call, messages, next_id, active_tasks, active_status>>

\* await storage.add_user_message(conversation_id, msg_request.content)
SmAddUserMessage(t) ==
    /\ tasks[t].pc = "sm_add_user_message"
    /\ messages' = [messages EXCEPT ![tasks[t].conversation_id] =
                       Append(@, UserMessage(next_id, tasks[t].content))]
    /\ next_id' = next_id + 1
    /\ tasks' = [tasks EXCEPT ![t].question_id = next_id,
                    ![t].pc = IF tasks[t].is_first_message
                              THEN "sm_title" ELSE "sm_council"]
    /\ UNCHANGED <<credits, b0, call, active_tasks, active_status>>

\* generate_conversation_title and update_conversation_title for a first message
SmTitle(t) ==
    /\ tasks[t].pc = "sm_title"
    /\ tasks' = [tasks EXCEPT ![t].title_task = "done", ![t].pc = "sm_council"]
    /\ UNCHANGED <<credits, b0, call, messages, next_id, active_tasks, active_status>>

\* run_full_council: the stages of the standard mode, or the error result when
\* no endpoint answered
SmCouncilOutcomes == {"synthesis", "all_failed"}

SmCouncil(t) ==
    /\ tasks[t].pc = "sm_council"
    /\ \E res \in SmCouncilOutcomes :
          tasks' = [tasks EXCEPT
                       ![t].stage1_results = IF res = "all_failed" THEN {} ELSE Pool,
                       ![t].stage2_results = IF res = "all_failed" THEN {} ELSE Pool,
                       ![t].stage3_result = res,
                       ![t].pc = "sm_add_assistant_message"]
    /\ UNCHANGED <<credits, b0, call, messages, next_id, active_tasks, active_status>>

\* a send_message that stores the Answer before its synthesis is known
SmAddAssistantMessage_without_stage3(t) ==
    /\ tasks[t].pc = "sm_add_assistant_message"
    /\ messages' = [messages EXCEPT ![tasks[t].conversation_id] =
                       Append(@, LegacyAssistantMessage(next_id,
                                    tasks[t].stage1_results, tasks[t].stage2_results,
                                    NullText))]
    /\ next_id' = next_id + 1
    /\ tasks' = [tasks EXCEPT ![t].message_id = next_id, ![t].pc = "sm_returned"]
    /\ UNCHANGED <<credits, b0, call, active_tasks, active_status>>

\* await storage.add_assistant_message(...), then the response is returned
SmAddAssistantMessage(t) ==
    /\ tasks[t].pc = "sm_add_assistant_message"
    /\ messages' = [messages EXCEPT ![tasks[t].conversation_id] =
                       Append(@, LegacyAssistantMessage(next_id,
                                    tasks[t].stage1_results, tasks[t].stage2_results,
                                    tasks[t].stage3_result))]
    /\ next_id' = next_id + 1
    /\ tasks' = [tasks EXCEPT ![t].message_id = next_id, ![t].pc = "sm_returned"]
    /\ UNCHANGED <<credits, b0, call, active_tasks, active_status>>

\* an await of send_message raises (the title call, the council, a Store
\* operation): the exception leaves the handler, which has no except clause
SmRaisingPcs == {"sm_add_user_message", "sm_title", "sm_council",
                 "sm_add_assistant_message"}

SmRaise(t) ==
    /\ tasks[t].pc \in SmRaisingPcs
    /\ tasks' = [tasks EXCEPT ![t].pc = "sm_failed"]
    /\ UNCHANGED <<credits, b0, call, messages, next_id, active_tasks, active_status>>

\* the response of send_message has been sent: its frame is gone
SmRelease(t) ==
    /\ tasks[t].pc \in {"sm_returned", "sm_failed"}
    /\ tasks' = [tasks EXCEPT ![t] = IdleTask]
    /\ UNCHANGED <<credits, b0, call, messages, next_id, active_tasks, active_status>>

\* ------------------------------------------------------ council: S2 rankings
\* A ranking text is a sequence of tokens separated by white space: the header,
\* a list number such as "1.", a label "Response X", or any other word.
Header == "FINAL RANKING:"
Number == "1."
Word == "text"
Labels == {"Response A", "Response B", "Response C"}
TextLabels == {"Response A", "Response B"}
TextTokens == {Header, Number, Word} \cup TextLabels

RECURSIVE TextsOfLen(_)
TextsOfLen(n) ==
    IF n = 0 THEN {<<>>}
    ELSE {Append(s, x) : s \in TextsOfLen(n - 1), x \in TextTokens}

\* the ranking texts of up to MaxTextLen tokens
Texts == UNION {TextsOfLen(n) : n \in 0..MaxTextLen}

\* ranking_text.split(sep): the pieces between the occurrences of sep
RECURSIVE split(_, _)
split(text, sep) ==
    IF \A i \in 1..Len(text) : text[i] # sep
    THEN <<text>>
    ELSE LET k == CHOOSE i \in 1..Len(text) :
                     text[i] = sep /\ \A j \in 1..(i - 1) : text[j] # sep
         IN  <<SubSeq(text, 1, k - 1)>> \o split(SubSeq(text, k + 1, Len(text)), sep)

\* re.findall(r'\d+\.\s*Response [A-Z]', s): the matches from left to right
RECURSIVE findall_numbered(_)
findall_numbered(s) ==
    IF Len(s) < 2 THEN <<>>
    ELSE IF s[1] = Number /\ s[2] \in Labels
    THEN <<SubSeq(s, 1, 2)>> \o findall_numbered(SubSeq(s, 3, Len(s)))
    ELSE findall_numbered(Tail(s))

\* re.findall(r'Response [A-Z]', s)
RECURSIVE findall_labels(_)
findall_labels(s) ==
    IF s = <<>> THEN <<>>
    ELSE (IF Head(s) \in Labels THEN <<Head(s)>> ELSE <<>>) \o findall_labels(Tail(s))

\* re.search(r'Response [A-Z]', m).group() for a numbered match m
search_label(m) == Head(findall_labels(m))

\* parse_ranking_from_text: with the header, parts[1] of the split is the section
parse_ranking_from_text(ranking_text) ==
    IF \E i \in 1..Len(ranking_text) : ranking_text[i] = Header
    THEN LET parts == split(ranking_text, Header)
         IN  IF Len(parts) >= 2
             THEN LET ranking_section == parts[2]
                      numbered_matches == findall_numbered(ranking_section)
                  IN  IF numbered_matches # <<>>
                      THEN [i \in 1..Len(numbered_matches) |->
                               search_label(numbered_matches[i])]
                      ELSE findall_labels(ranking_section)
             ELSE findall_labels(ranking_text)
    ELSE findall_labels(ranking_text)

\* one call of parse_ranking_from_text on a reply of an endpoint
ParseRanking(text) ==
    /\ call' = [op |-> "parse_ranking_from_text", input |-> text,
                output |-> parse_ranking_from_text(text)]
    /\ UNCHANGED <<credits, b0, messages, next_id, tasks, active_tasks, active_status>>

\* the reply of a rater that ranks the labels of r in the structured format
RankingText(r) ==
    <<Header>> \o [i \in 1..(2 * Len(r)) |-> IF i % 2 = 1 THEN Number ELSE r[i \div 2]]

RECURSIVE RankingsOfLen(_)
RankingsOfLen(n) ==
    IF n = 0 THEN {<<>>}
    ELSE UNION {{Append(r, l) : l \in Labels \ {r[i] : i \in 1..Len(r)}} :
                  r \in RankingsOfLen(n - 1)}

\* the orders a rater may give: up to MaxRankLen different labels
Rankings == UNION {RankingsOfLen(n) : n \in 0..MaxRankLen}

\* stage2_results: the replies of 1..MaxRaters raters
Stage2Results ==
    UNION {[1..n -> {[ranking |-> RankingText(r)] : r \in Rankings}] : n \in 1..MaxRaters}

\* label_to_model: every label of the three responses, or of two of them only
LabelToModel == [l \in Labels |-> CASE l = "Response A" -> "m1"
                                     [] l = "Response B" -> "m2"
                                     [] OTHER -> "m3"]
LabelMaps == {LabelToModel, [l \in {"Response A", "Response B"} |-> LabelToModel[l]]}

\* enumerate(parsed_ranking, start = first): the positions at which the labels
\* of model stand in one parsed ranking
positions_in(parsed_ranking, label_to_model, model, first) ==
    LET at == SelectSeq([i \in 1..Len(parsed_ranking) |-> i],
                        LAMBDA i : /\ parsed_ranking[i] \in DOMAIN label_to_model
                                   /\ label_to_model[parsed_ranking[i]] = model)
    IN  [k \in 1..Len(at) |-> at[k] + first - 1]

\* positions counted from 0
RECURSIVE model_positions_from_zero(_, _, _)
model_positions_from_zero(stage2_results, label_to_model, model) ==
    IF stage2_results = <<>> THEN <<>>
    ELSE positions_in(parse_ranking_from_text(Head(stage2_results).ranking),
                      label_to_model, model, 0)
         \o model_positions_from_zero(Tail(stage2_results), label_to_model, model)

\* model_positions[model] after the loop over stage2_results
RECURSIVE model_positions(_, _, _)
model_positions(stage2_results, label_to_model, model) ==
    IF stage2_results = <<>> THEN <<>>
    ELSE positions_in(parse_ranking_from_text(Head(stage2_results).ranking),
                      label_to_model, model, 1)
         \o model_positions(Tail(stage2_results), label_to_model, model)

\* the keys of model_positions in insertion order: the models in the order in
\* which the loop first appends a position for them
RECURSIVE models_seen(_, _)
models_seen(stage2_results, label_to_model) ==
    IF stage2_results = <<>> THEN <<>>
    ELSE LET before == models_seen(SubSeq(stage2_results, 1, Len(stage2_results) - 1),
                                   label_to_model)
             parsed == parse_ranking_from_text(Last(stage2_results).ranking)
             mapped == SelectSeq(parsed, LAMBDA l : l \in DOMAIN label_to_model)
             models == [i \in 1..Len(mapped) |-> label_to_model[mapped[i]]]
             fresh == SelectSeq([i \in 1..Len(models) |-> i],
                         LAMBDA i : /\ \A j \in 1..Len(before) : before[j] # models[i]
                                    /\ \A j \in 1..(i - 1) : models[j] # models[i])
         IN  before \o [k \in 1..Len(fresh) |-> models[fresh[k]]]

RECURSIVE SumSeq(_)
SumSeq(s) == IF s = <<>> THEN 0 ELSE Head(s) + SumSeq(Tail(s))

\* round(total / count, 2) in hundredths; total / count is never half-way
\* between two hundredths for count < 200
round2(total, count) == (200 * total + count) \div (2 * count)

\* list.sort(key = average_rank): a stable sort
RECURSIVE sort_by_average_rank(_)
sort_by_average_rank(s) ==
    IF s = <<>> THEN <<>>
    ELSE LET rest == sort_by_average_rank(SubSeq(s, 1, Len(s) - 1))
             x == Last(s)
             keep == {i \in 0..Len(rest) :
                         \A j \in 1..i : rest[j].average_rank <= x.average_rank}
             k == Max(keep)
         IN  SubSeq(rest, 1, k) \o <<x>> \o SubSeq(rest, k + 1, Len(rest))

calculate_aggregate_rankings(stage2_results, label_to_model) ==
    LET models == models_seen(stage2_results, label_to_model)
        aggregate ==
           [i \in 1..Len(models) |->
              LET positions == model_positions(stage2_results, label_to_model, models[i])
              IN  [model |-> models[i],
                   average_rank |-> round2(SumSeq(positions), Len(positions)),
                   rankings_count |-> Len(positions)]]
    IN  sort_by_average_rank(aggregate)

\* one call of calculate_aggregate_rankings
CalculateAggregate(stage2_results, label_to_model) ==
    /\ call' = [op |-> "calculate_aggregate_rankings",
                input |-> <<stage2_results, label_to_model>>,
                output |-> calculate_aggregate_rankings(stage2_results, label_to_model)]
    /\ UNCHANGED <<credits, b0, messages, next_id, tasks, active_tasks, active_status>>

\* ------------------------------------------- council: S3 echo detection
\* The moderator's output and the question as stage3_synthesize_final reads
\* them, by the lengths and positions its string operations depend on:
\*   query_len     len(user_query); the question has no white space at its ends
\*   lead_ws       white space at the start of content
\*   echo_len      how many characters of content, after lead_ws, repeat the
\*                 start of the question
\*   indicator_at  index in content.lower() of the first synthesis indicator,
\*                 here "**", or -1 when content holds none
\*   marker_at     index in content.lower() of the first synthesis marker, here
\*                 "after reviewing", or -1 when content holds none
\*   content_len   len(content)
IndicatorLen == 2
MarkerLen == 15
QueryLens == {60, 100, 101, 130, 400}
LeadWs == {0, 2}
EchoLens == {0, 79, 80, 130}
IndicatorAts == {-1, 10, 498, 499, 620}
MarkerAts == {-1, 90, 640}
ContentLens == {60, 300, 580, 630, 631, 901}

Moderations ==
    {m \in [query_len : QueryLens, lead_ws : LeadWs, echo_len : EchoLens,
            indicator_at : IndicatorAts, marker_at : MarkerAts,
            content_len : ContentLens] :
        /\ m.echo_len <= m.query_len
        /\ m.lead_ws + m.echo_len <= m.content_len
        /\ m.indicator_at # -1 => m.indicator_at + IndicatorLen <= m.content_len
        /\ m.marker_at # -1 => m.marker_at + MarkerLen <= m.content_len
        \* the indicator and the marker are different pieces of text
        /\ (m.indicator_at # -1 /\ m.marker_at # -1) =>
              \/ m.indicator_at + IndicatorLen <= m.marker_at
              \/ m.marker_at + MarkerLen <= m.indicator_at}

Min(a, b) == IF a <= b THEN a ELSE b

\* len(user_query[:150].strip())
query_start_len(m) == Min(150, m.query_len)

\* response_start.startswith(query_start[:80]), response_start = content[:300].strip()
starts_with_query(m) ==
    /\ m.lead_ws + Min(80, query_start_len(m)) <= 300
    /\ m.echo_len >= Min(80, query_start_len(m))

\* any(ind in content[:500].lower() for ind in synthesis_indicators)
has_synthesis_markers(m) ==
    m.indicator_at # -1 /\ m.indicator_at + IndicatorLen <= 500

\* a detector that withdraws the echo for indicators or for substantial content
echo_detected_either(m) ==
    /\ m.query_len > 100
    /\ starts_with_query(m)
    /\ ~(has_synthesis_markers(m) \/ m.content_len > query_start_len(m) + 500)

\* echo_detected after the benefit-of-doubt test
echo_detected(m) ==
    /\ m.query_len > 100
    /\ starts_with_query(m)
    /\ ~(has_synthesis_markers(m) /\ m.content_len > query_start_len(m) + 500)

\* synthesis_found: a synthesis marker stands after the start of the question
synthesis_found(m) ==
    /\ echo_detected(m)
    /\ m.marker_at # -1
    /\ m.marker_at > query_start_len(m)

\* the part of stage3_synthesize_final between the moderator's reply and the
\* retry: what it decided
stage3_echo_check(m) ==
    [echo_detected |-> echo_detected(m),
     synthesis_found |-> synthesis_found(m),
     retry |-> echo_detected(m) /\ ~synthesis_found(m)]

\* one run of the echo detection on a moderator reply
Stage3EchoCheck(m) ==
    /\ call' = [op |-> "stage3_synthesize_final", input |-> m,
                output |-> stage3_echo_check(m)]
    /\ UNCHANGED <<credits, b0, messages, next_id, tasks, active_tasks, active_status>>

\* ------------------------------------------------- council: the moderator call
\* stage3_synthesize_final as the caller sees it: what the run does with it
CANNED_NO_REPLY == "Error: Unable to generate final synthesis."
CANNED_RETRY_ECHOED == "**Unable to generate synthesis** - The moderator model encountered an issue processing this query."
CANNED_RETRY_FAILED == "**Unable to generate synthesis** - The moderator model failed to respond."

NoEchoCheck == [echo_detected |-> FALSE, synthesis_found |-> FALSE, retry |-> FALSE]

\* no reply of the moderator has been read yet
NoModeration ==
    [query_len |-> 0, lead_ws |-> 0, echo_len |-> 0, indicator_at |-> -1,
     marker_at |-> -1, content_len |-> 0]

\* what the retry call can come back with: None, a reply without content, a
\* reply that holds user_query[:100] in its first 200 characters, a clean reply
RetryReplies == {"None", "no content", "echo", "clean"}

\* stage3_synthesize_final is called and awaits its first query_model call.
\* stage1_text tells whether every response of stage1_results[:4] is a text
\* (query_model passes message.get('content') on, which can be None)
Stage3Synthesize(stage1_text) ==
    /\ call' = [op |-> "stage3_synthesize_final", input |-> <<stage1_text>>,
                output |-> [pc |-> "query_model", calls |-> 1,
                            moderation |-> NoModeration, check |-> NoEchoCheck,
                            response |-> NullText, run |-> "stage3"]]
    /\ UNCHANGED <<credits, b0, messages, next_id, tasks, active_tasks, active_status>>

Awaiting(pc) == call.op = "stage3_synthesize_final" /\ call.output.pc = pc

\* the function returns a {"model", "response"} dict: the run goes on to the
\* atomic save
Return(out, response) == [out EXCEPT !.pc = "returned", !.response = response,
                                     !.run = "commit"]

\* an exception leaves the function: the run's except clause refunds
RaiseTypeError(out) == [out EXCEPT !.pc = "raised", !.run = "failed_refund"]

\* the retry prompt slices r['response'][:800] of stage1_results[:4]; then the
\* second query_model call is made
build_retry_prompt(out, stage1_text) ==
    IF stage1_text THEN [out EXCEPT !.pc = "retry", !.calls = @ + 1]
    ELSE RaiseTypeError(out)

\* the first call returned None
ModeratorFailed ==
    /\ Awaiting("query_model")
    /\ call' = [call EXCEPT !.output = Return(@, CANNED_NO_REPLY)]
    /\ UNCHANGED <<credits, b0, messages, next_id, tasks, active_tasks, active_status>>

\* the first call returned a reply whose content is None: len(content) raises
ModeratorRepliedNull ==
    /\ Awaiting("query_model")
    /\ call' = [call EXCEPT !.output = RaiseTypeError(@)]
    /\ UNCHANGED <<credits, b0, messages, next_id, tasks, active_tasks, active_status>>

\* the first call returned the text m: the echo check, then a return or the retry
ModeratorReplied(m) ==
    /\ Awaiting("query_model")
    /\ LET checked == [call.output EXCEPT !.moderation = m,
                                          !.check = stage3_echo_check(m)]
       IN  call' = [call EXCEPT !.output =
                       IF stage3_echo_check(m).retry
                       THEN build_retry_prompt(checked, call.input[1])
                       ELSE IF stage3_echo_check(m).synthesis_found
                       THEN Return(checked, "content[marker_pos:]")
                       ELSE Return(checked, "content")]
    /\ UNCHANGED <<credits, b0, messages, next_id, tasks, active_tasks, active_status>>

\* the retry call returned
RetryReturned(reply) ==
    /\ Awaiting("retry")
    /\ call' = [call EXCEPT !.output =
                   IF reply \in {"None", "no content"}
                   THEN Return(@, CANNED_RETRY_FAILED)
                   ELSE IF reply = "echo" THEN Return(@, CANNED_RETRY_ECHOED)
                   ELSE Return(@, "retry_content")]
    /\ UNCHANGED <<credits, b0, messages, next_id, tasks, active_tasks, active_status>>

\* ------------------------------------------- council: S1 and S1.5 on a pool
\* the pool of a mode, in the order of its decision_makers list
DECISION_MAKERS == <<"m1", "m2", "m3", "m4">>
PoolModels == {DECISION_MAKERS[i] : i \in 1..Len(DECISION_MAKERS)}

\* the text an endpoint gives as its S1 response
Stage1Text(model) == <<"response of", model>>

\* stage1_results for the endpoints of S that answered in S1, in pool order
Stage1ResultsOf(S) ==
    LET at == SelectSeq([i \in 1..Len(DECISION_MAKERS) |-> i],
                        LAMBDA i : DECISION_MAKERS[i] \in S)
    IN  [k \in 1..Len(at) |->
            [model |-> DECISION_MAKERS[at[k]],
             response |-> Stage1Text(DECISION_MAKERS[at[k]])]]

\* model_to_response.get(model, ""): the S1 response of model, or the empty text
own_response(stage1_results, model) ==
    IF \E i \in 1..Len(stage1_results) : stage1_results[i].model = model
    THEN stage1_results[CHOOSE i \in 1..Len(stage1_results) :
                           stage1_results[i].model = model].response
    ELSE <<>>

\* the reply of an endpoint to the cross-review prompt: its refinement of the
\* text the prompt gives it as YOUR ORIGINAL RESPONSE
Refinement(own) == <<"refinement of", own>>

\* stage1_5_cross_review: get_refined_response for every model of
\* decision_makers; answered are the endpoints whose query_model call returned
\* a response, the others returned None
stage1_5_cross_review(stage1_results, decision_makers, answered) ==
    LET at == SelectSeq([i \in 1..Len(decision_makers) |-> i],
                        LAMBDA i : decision_makers[i] \in answered)
    IN  [k \in 1..Len(at) |->
            [model |-> decision_makers[at[k]],
             response |-> Refinement(own_response(stage1_results, decision_makers[at[k]])),
             refined |-> TRUE]]

\* one call of stage1_5_cross_review by the Scheduler, which makes it only
\* with a stage1_results that is not empty
CrossReview(stage1_results, answered) ==
    /\ stage1_results # <<>>
    /\ call' = [op |-> "stage1_5_cross_review",
                input |-> <<stage1_results, answered>>,
                output |-> stage1_5_cross_review(stage1_results, DECISION_MAKERS, answered)]
    /\ UNCHANGED <<credits, b0, messages, next_id, tasks, active_tasks, active_status>>

\* ------------------------------------------------------------------ endpoints
\* openrouter.py: one query_model call per endpoint of the pool, gathered by
\* query_models_parallel and formatted by stage1_collect_responses

MAX_RETRIES == 1
RETRY_DELAY == 1
RETRYABLE_STATUS_CODES == {429, 500, 502, 503, 504}

\* the endpoints of one S1 call, in pool order
QueryModels == <<"m1", "m2", "m3">>

\* what one client.post attempt can end with: a parsed reply, raise_for_status
\* raising HTTPStatusError, a network or timeout error, or any other exception
StatusCodes == RETRYABLE_STATUS_CODES \cup {400, 404}
Reply(model) == [kind |-> "reply", status |-> 200, content |-> <<"content of", model>>]
HTTPStatusErrors ==
    {[kind |-> "HTTPStatusError", status |-> s, content |-> <<>>] : s \in StatusCodes}
NetworkErrors ==
    {[kind |-> k, status |-> 0, content |-> <<>>] :
        k \in {"ConnectError", "TimeoutException"}}
OtherErrors == {[kind |-> "Exception", status |-> 0, content |-> <<>>]}
NoError == [kind |-> "none", status |-> 0, content |-> <<>>]
PostOutcomes(model) ==
    {Reply(model)} \cup HTTPStatusErrors \cup NetworkErrors \cup OtherErrors

\* what query_model returns: a dict with the content, or None
Pending == [kind |-> "pending", content |-> <<>>]
NoneResponse == [kind |-> "None", content |-> <<>>]
ResponseDict(content) == [kind |-> "dict", content |-> content]

\* a query_model call at its first client.post; attempts counts the posts made,
\* first_error is what the first post raised, delays the sleeps taken
NewQuery(model) ==
    [model |-> model, pc |-> "post", attempt |-> 0, attempts |-> 0,
     first_error |-> NoError, delays |-> <<>>, response |-> Pending]

\* a retry rule that retries whatever the first attempt raised
should_retry_any_error(e, attempt) == attempt < MAX_RETRIES

\* the conditions under which an except clause sleeps and continues
should_retry(e, attempt) ==
    \/ /\ e.kind = "HTTPStatusError"
       /\ e.status \in RETRYABLE_STATUS_CODES
       /\ attempt < MAX_RETRIES
    \/ /\ e.kind \in {"ConnectError", "TimeoutException"}
       /\ attempt < MAX_RETRIES

\* one iteration of query_model's loop, from client.post to return or sleep
query_model(q, outcome) ==
    LET posted == [q EXCEPT !.attempts = @ + 1,
                            !.first_error = IF q.attempt = 0 /\ outcome.kind # "reply"
                                            THEN outcome ELSE @]
    IN  IF outcome.kind = "reply"
        THEN [posted EXCEPT !.pc = "done", !.response = ResponseDict(outcome.content)]
        ELSE IF should_retry(outcome, q.attempt)
        THEN [posted EXCEPT !.pc = "sleep",
                            !.delays = Append(@, RETRY_DELAY * (2 ^ q.attempt))]
        ELSE [posted EXCEPT !.pc = "done", !.response = NoneResponse]

\* asyncio.sleep(delay) returning: the loop goes to its next attempt, and leaves
\* the loop when range(MAX_RETRIES + 1) is exhausted
query_model_continue(q) ==
    IF q.attempt + 1 < MAX_RETRIES + 1
    THEN [q EXCEPT !.pc = "post", !.attempt = @ + 1]
    ELSE [q EXCEPT !.pc = "done", !.response = NoneResponse]

\* stage1_collect_responses called: query_models_parallel creates one
\* query_model coroutine per model and gathers them
StartQueries ==
    /\ call = NoCall
    /\ call' = [op |-> "query_models_parallel",
                input |-> [i \in 1..Len(QueryModels) |-> NewQuery(QueryModels[i])],
                output |-> <<>>]
    /\ UNCHANGED <<credits, b0, messages, next_id, tasks, active_tasks, active_status>>

\* the post of endpoint i ends
Post(i, outcome) ==
    /\ call.op = "query_models_parallel"
    /\ call.input[i].pc = "post"
    /\ call' = [call EXCEPT !.input[i] = query_model(@, outcome)]
    /\ UNCHANGED <<credits, b0, messages, next_id, tasks, active_tasks, active_status>>

\* the backoff sleep of endpoint i ends
Wake(i) ==
    /\ call.op = "query_models_parallel"
    /\ call.input[i].pc = "sleep"
    /\ call' = [call EXCEPT !.input[i] = query_model_continue(@)]
    /\ UNCHANGED <<credits, b0, messages, next_id, tasks, active_tasks, active_status>>

\* {model: response for model, response in zip(models, responses)}, as the
\* sequence of its items in insertion order
query_models_parallel(models, responses) ==
    [i \in 1..Len(models) |-> [model |-> models[i], response |-> responses[i]]]

\* a formatting that keeps an entry for every endpoint
stage1_collect_all(items) ==
    [i \in 1..Len(items) |->
        [model |-> items[i].model, response |-> items[i].response.content]]

\* stage1_collect_responses: an entry for every response that is not None
stage1_collect_responses(items) ==
    LET ok == SelectSeq(items, LAMBDA it : it.response.kind # "None")
    IN  [i \in 1..Len(ok) |->
            [model |-> ok[i].model, response |-> ok[i].response.content]]

\* asyncio.gather returns when every query_model call has returned
Gather ==
    /\ call.op = "query_models_parallel"
    /\ \A i \in 1..Len(call.input) : call.input[i].pc = "done"
    /\ call' = [call EXCEPT
                  !.op = "stage1_collect_responses",
                  !.output = stage1_collect_responses(
                                query_models_parallel(
                                   QueryModels,
                                   [i \in 1..Len(call.input) |-> call.input[i].response]))]
    /\ UNCHANGED <<credits, b0, messages, next_id, tasks, active_tasks, active_status>>

\* ------------------------------------------------------------------ streaming
\* openrouter.py: query_model_streaming, an async generator.  events is what it
\* has yielded so far; a token's content is the sequence holding its chunk, a
\* complete's content the sequence of the chunks accumulated.
Chunks == {"a", "b"}
TokenEvent(content) == [type |-> "token", content |-> content]
CompleteEvent(content) == [type |-> "complete", content |-> content]
ErrorEvent == [type |-> "error", content |-> <<>>]
RetryEvent == [type |-> "retry", content |-> <<>>]

\* the generator at its first client.stream
NewStream ==
    [pc |-> "stream", attempt |-> 0, accumulated_content |-> <<>>, events |-> <<>>]

\* the three except clauses: sleep, reset the accumulated content and continue,
\* or yield an error event and return
stream_except(s, e) ==
    IF should_retry(e, s.attempt)
    THEN [s EXCEPT !.pc = "sleep", !.accumulated_content = <<>>]
    ELSE [s EXCEPT !.pc = "returned", !.events = Append(@, ErrorEvent)]

\* a "data: " line whose delta holds the content c
stream_token(s, c) ==
    [s EXCEPT !.accumulated_content = Append(@, c),
              !.events = Append(@, TokenEvent(<<c>>))]

\* "[DONE]" or the end of the lines
stream_complete(s) ==
    [s EXCEPT !.pc = "returned",
              !.events = Append(@, CompleteEvent(s.accumulated_content))]

\* asyncio.sleep(delay) returning: the next attempt of range(MAX_RETRIES + 1)
stream_continue(s) ==
    IF s.attempt + 1 < MAX_RETRIES + 1
    THEN [s EXCEPT !.pc = "stream", !.attempt = @ + 1]
    ELSE [s EXCEPT !.pc = "returned"]

Streaming(pc) == call.op = "query_model_streaming" /\ call.output.pc = pc

\* query_model_streaming is called and iterated
StreamStart ==
    /\ call = NoCall
    /\ call' = [op |-> "query_model_streaming", input |-> <<>>, output |-> NewStream]
    /\ UNCHANGED <<credits, b0, messages, next_id, tasks, active_tasks, active_status>>

\* client.stream answered with a success status: the lines are read
StreamOpened ==
    /\ Streaming("stream")
    /\ call' = [call EXCEPT !.output.pc = "lines"]
    /\ UNCHANGED <<credits, b0, messages, next_id, tasks, active_tasks, active_status>>

\* client.stream or raise_for_status raised e
StreamOpenFailed(e) ==
    /\ Streaming("stream")
    /\ call' = [call EXCEPT !.output = stream_except(@, e)]
    /\ UNCHANGED <<credits, b0, messages, next_id, tasks, active_tasks, active_status>>

\* a line with the content c arrives
StreamLine(c) ==
    /\ Streaming("lines")
    /\ Len(call.output.accumulated_content) < MaxChunks
    /\ call' = [call EXCEPT !.output = stream_token(@, c)]
    /\ UNCHANGED <<credits, b0, messages, next_id, tasks, active_tasks, active_status>>

\* the stream ends
StreamEnd ==
    /\ Streaming("lines")
    /\ call' = [call EXCEPT !.output = stream_complete(@)]
    /\ UNCHANGED <<credits, b0, messages, next_id, tasks, active_tasks, active_status>>

\* aiter_lines raised e in mid-stream
StreamBroke(e) ==
    /\ Streaming("lines")
    /\ call' = [call EXCEPT !.output = stream_except(@, e)]
    /\ UNCHANGED <<credits, b0, messages, next_id, tasks, active_tasks, active_status>>

\* the backoff sleep ends
StreamWake ==
    /\ Streaming("sleep")
    /\ call' = [call EXCEPT !.output = stream_continue(@)]
    /\ UNCHANGED <<credits, b0, messages, next_id, tasks, active_tasks, active_status>>

\* council.py: stage3_synthesize_final_streaming, an async generator over the
\* events of query_model_streaming.  A token is known by the length of its
\* content.  echo tells whether the text of the first stream starts with the
\* first 80 characters of the question, retry_echo the same of the retry
\* stream; upstream is what the generator has read of the stream it is
\* iterating, checked whether the echo test has run.
ECHO_BUFFER_SIZE == 300
ChunkLens == {50, 150, 300}
StreamQueryLens == {100, 101}

NewSynthesisStream(query_len, echo, retry_echo) ==
    [pc |-> "first", query_len |-> query_len, echo |-> echo,
     retry_echo |-> retry_echo, buffer |-> <<>>, buffer_complete |-> FALSE,
     echo_detected |-> FALSE, checked |-> FALSE, upstream |-> <<>>,
     events |-> <<>>]

\* len(user_query) > 100 and buffer.strip().startswith(query_start[:80])
buffer_echoes(g, buffer) ==
    g.query_len > 100 /\ g.echo /\ SumSeq(buffer) >= 80

\* the retry event, the retry prompt and the second query_model_streaming
start_retry(g) ==
    [g EXCEPT !.pc = "retry", !.upstream = <<>>,
              !.events = Append(@, RetryEvent)]

\* a token event of the first stream
first_token(g, c) ==
    LET read == [g EXCEPT !.upstream = Append(@, c)]
        buffer == Append(g.buffer, c)
    IN  IF ~g.buffer_complete
        THEN IF SumSeq(buffer) >= ECHO_BUFFER_SIZE
             THEN IF buffer_echoes(g, buffer)
                  THEN start_retry([read EXCEPT !.buffer = buffer,
                                                !.buffer_complete = TRUE,
                                                !.checked = TRUE,
                                                !.echo_detected = TRUE])
                  ELSE [read EXCEPT !.buffer = buffer, !.buffer_complete = TRUE,
                                    !.checked = TRUE,
                                    !.events = Append(@, TokenEvent(buffer))]
             ELSE [read EXCEPT !.buffer = buffer]
        ELSE [read EXCEPT !.events = Append(@, TokenEvent(<<c>>))]

\* the complete event of the first stream
first_complete(g) ==
    IF ~g.buffer_complete
    THEN IF buffer_echoes(g, g.buffer)
         THEN start_retry([g EXCEPT !.checked = TRUE, !.echo_detected = TRUE])
         ELSE [g EXCEPT !.pc = "returned", !.checked = TRUE,
                        !.events = (IF g.buffer # <<>>
                                    THEN Append(@, TokenEvent(g.buffer)) ELSE @)
                                   \o <<CompleteEvent(g.upstream)>>]
    ELSE [g EXCEPT !.pc = "returned",
                   !.events = Append(@, CompleteEvent(g.upstream))]

\* an error event of either stream
stream_error(g) == [g EXCEPT !.pc = "returned", !.events = Append(@, ErrorEvent)]

\* a token event of the retry stream
retry_token(g, c) ==
    [g EXCEPT !.upstream = Append(@, c), !.events = Append(@, TokenEvent(<<c>>))]

\* the complete event of the retry stream
retry_complete(g) ==
    [g EXCEPT !.pc = "returned", !.events = Append(@, CompleteEvent(g.upstream))]

Synthesizing(pc) ==
    call.op = "stage3_synthesize_final_streaming" /\ call.output.pc = pc

\* stage3_synthesize_final_streaming is called and iterated
Stage3Streaming(query_len, echo, retry_echo) ==
    /\ call = NoCall
    /\ call' = [op |-> "stage3_synthesize_final_streaming", input |-> <<>>,
                output |-> NewSynthesisStream(query_len, echo, retry_echo)]
    /\ UNCHANGED <<credits, b0, messages, next_id, tasks, active_tasks, active_status>>

FirstToken(c) ==
    /\ Synthesizing("first")
    /\ Len(call.output.upstream) < MaxChunks
    /\ call' = [call EXCEPT !.output = first_token(@, c)]
    /\ UNCHANGED <<credits, b0, messages, next_id, tasks, active_tasks, active_status>>

FirstComplete ==
    /\ Synthesizing("first")
    /\ call' = [call EXCEPT !.output = first_complete(@)]
    /\ UNCHANGED <<credits, b0, messages, next_id, tasks, active_tasks, active_status>>

FirstError ==
    /\ Synthesizing("first")
    /\ call' = [call EXCEPT !.output = stream_error(@)]
    /\ UNCHANGED <<credits, b0, messages, next_id, tasks, active_tasks, active_status>>

RetryToken(c) ==
    /\ Synthesizing("retry")
    /\ Len(call.output.upstream) < MaxChunks
    /\ call' = [call EXCEPT !.output = retry_token(@, c)]
    /\ UNCHANGED <<credits, b0, messages, next_id, tasks, active_tasks, active_status>>

RetryComplete ==
    /\ Synthesizing("retry")
    /\ call' = [call EXCEPT !.output = retry_complete(@)]
    /\ UNCHANGED <<credits, b0, messages, next_id, tasks, active_tasks, active_status>>

RetryError ==
    /\ Synthesizing("retry")
    /\ call' = [call EXCEPT !.output = stream_error(@)]
    /\ UNCHANGED <<credits, b0, messages, next_id, tasks, active_tasks, active_status>>

\* ------------------------------------------------------------ specification
\* A finished asyncio task has no further behaviour: its record is released, and
\* the slot can hold the task of a later request.
Discard(t) ==
    /\ tasks[t].pc = "ended"
    /\ tasks' = [tasks EXCEPT ![t] = IdleTask]
    /\ UNCHANGED <<credits, b0, call, messages, next_id, active_tasks, active_status>>

\* no request is in flight and no finished task is left
Quiet == \A t \in TaskIds : tasks[t].pc = "idle"

\* a client that sends its deliberation requests one at a time
\* and stops when the rows of one more request would not fit MaxMessages
SubmitAlone(u, d, c, m, files, retry) ==
    /\ Quiet
    /\ (next_id - 1) + 2 <= MaxMessages
    /\ Submit(u, d, c, m, files, retry)
RerunAlone(u, d, m) ==
    /\ Quiet
    /\ (next_id - 1) + 1 <= MaxMessages
    /\ Rerun(u, d, m)

\* Spec: the paying principal u1 sends one deliberation request at a time, in
\* every mode, with and without attachments; cancel, status, retry, delete and
\* disconnect arrive at any moment of the run.
Next ==
    \/ \E d \in Convs, c \in Contents, m \in RequestModes,
          files \in BOOLEAN, retry \in 0..(next_id - 1) :
          SubmitAlone("u1", d, c, m, files, retry)
    \/ \E d \in Convs, m \in RequestModes : RerunAlone("u1", d, m)
    \/ \E too_long \in BOOLEAN, bad_files \in BOOLEAN :
          SubmitInvalid("u1", "d1", too_long, bad_files)
    \/ \E u \in Users : SubmitNotFound(u, "d1")
    \/ \E m \in RUN_MODES, files \in BOOLEAN : SubmitInsufficient("u1", "d1", m, files)
    \/ \E u \in Users, m \in RUN_MODES : RerunRejected(u, "d1", m)
    \/ \E d \in Convs : cancel_processing(owner[d], d)
    \/ \E u \in Users : CancelRejected(u, "d1")
    \/ \E d \in Convs : StatusRequest(owner[d], d)
    \/ \E id \in 1..(next_id - 1) : retry_message("u1", "d1", id)
    \/ \E id \in 1..(next_id - 1) : delete_message("u1", "d1", id)
    \/ \E t \in TaskIds : ReaderDropped(t)
    \/ \E t \in TaskIds : Start(t)
    \/ \E t \in TaskIds : AddUserMessage(t)
    \/ \E t \in TaskIds : GetPreviousDecision(t)
    \/ \E t \in TaskIds : Stage1(t)
    \/ \E t \in TaskIds : Stage1_5(t)
    \/ \E t \in TaskIds : Stage2(t)
    \/ \E t \in TaskIds : Stage3(t)
    \/ \E t \in TaskIds : Commit(t)
    \/ \E t \in TaskIds : SaveContextSummary(t)
    \/ \E t \in TaskIds : AwaitTitle(t)
    \/ \E t \in TaskIds : UpdateConversationTitle(t)
    \/ \E t \in TaskIds : Complete(t)
    \/ \E t \in TaskIds : Raise(t)
    \/ \E t \in TaskIds : Refund(t)
    \/ \E t \in TaskIds : CancelDelivered(t)
    \/ \E t \in TaskIds : Discard(t)

Spec == Init /\ [][Next]_vars

\* SpecConcurrent: u1 sends up to MaxTasks requests on d1 that are in flight
\* together, in the two cheaper modes; no task record is released, so the
\* reservations of a whole behaviour stay visible.
ConcurrentModes == {"quick_decision", "decide_please"}

NextConcurrent ==
    \/ \E m \in ConcurrentModes : Submit("u1", "d1", "q1", m, FALSE, NoMsg)
    \/ \E m \in ConcurrentModes : SubmitInsufficient("u1", "d1", m, FALSE)
    \/ cancel_processing("u1", "d1")
    \/ StatusRequest("u1", "d1")
    \/ \E t \in TaskIds : Start(t)
    \/ \E t \in TaskIds : AddUserMessage(t)
    \/ \E t \in TaskIds : GetPreviousDecision(t)
    \/ \E t \in TaskIds : Stage1(t)
    \/ \E t \in TaskIds : Stage2(t)
    \/ \E t \in TaskIds : Stage3(t)
    \/ \E t \in TaskIds : Commit(t)
    \/ \E t \in TaskIds : SaveContextSummary(t)
    \/ \E t \in TaskIds : AwaitTitle(t)
    \/ \E t \in TaskIds : UpdateConversationTitle(t)
    \/ \E t \in TaskIds : Complete(t)
    \/ \E t \in TaskIds : Raise(t)
    \/ \E t \in TaskIds : Refund(t)
    \/ \E t \in TaskIds : CancelDelivered(t)

SpecConcurrent == InitConcurrent /\ [][NextConcurrent]_vars

\* SpecTenants: both principals use their own deliberation, one request at a
\* time, in quick_decision mode, and a submit may name any existing row as the
\* Answer it responds to; requests on a deliberation of the other principal are
\* refused.  A principal whose balance has grown past its first balance sends
\* no more.
SubmitTenant(u, d, source) ==
    /\ Quiet
    /\ (next_id - 1) + 2 <= MaxTenantMessages
    /\ credits[u] <= b0[u]
    /\ SubmitWithSource(u, d, "q1", "quick_decision", source)

NextTenants ==
    \/ \E u \in Users, d \in Convs, source \in 0..(next_id - 1) :
          SubmitTenant(u, d, source)
    \/ \E u \in Users, d \in Convs : SubmitNotFound(u, d)
    \/ \E u \in Users, d \in Convs : RerunRejected(u, d, "quick_decision")
    \/ \E u \in Users, d \in Convs : CancelRejected(u, d)
    \/ \E d \in Convs : StatusRequest(owner[d], d)
    \/ \E t \in TaskIds : Start(t)
    \/ \E t \in TaskIds : AddUserMessage(t)
    \/ \E t \in TaskIds : GetPreviousDecision(t)
    \/ \E t \in TaskIds : Stage1(t)
    \/ \E t \in TaskIds : Stage3(t)
    \/ \E t \in TaskIds : Commit(t)
    \/ \E t \in TaskIds : SaveContextSummary(t)
    \/ \E t \in TaskIds : AwaitTitle(t)
    \/ \E t \in TaskIds : UpdateConversationTitle(t)
    \/ \E t \in TaskIds : Complete(t)
    \/ \E t \in TaskIds : Raise(t)
    \/ \E t \in TaskIds : Refund(t)
    \/ \E t \in TaskIds : Discard(t)

SpecTenants == Init /\ [][NextTenants]_vars

\* SpecStore: the message operations the Transcript Store exposes, called in
\* any order between the requests.  A direct caller inserts rows until
\* MaxStoreMessages rows exist and names, in a stage update, a row that
\* create_pending_assistant_message or add_assistant_message inserted; the
\* paying principal sends one request at a time on d1, by send_message_stream in
\* quick_decision mode or by the one-shot send_message; the service restarts
\* whenever no request is in flight (lifespan).
StageData(stage) == IF stage = "stage3" THEN "synthesis" ELSE Pool

RoomForRow == Quiet /\ next_id <= MaxStoreMessages
RoomForRequest == Quiet /\ (next_id - 1) + 2 <= MaxStoreMessages

NextStore ==
    \/ \E d \in Convs, c \in Contents :
          RoomForRow /\ add_user_message(d, c)
    \/ \E d \in Convs :
          RoomForRow /\ add_assistant_message(d, Pool, Pool, "synthesis")
    \/ \E d \in Convs :
          RoomForRow /\ create_pending_assistant_message(d)
    \/ \E id \in {m.id : m \in AnswerRows}, stage \in STAGE_COLUMNS :
          Quiet /\ update_assistant_message_stage(id, stage, StageData(stage))
    \/ lifespan
    \/ RoomForRequest /\ Submit("u1", "d1", "q1", "quick_decision", FALSE, NoMsg)
    \/ RoomForRequest /\ send_message("u1", "d1", "q1")
    \/ \E t \in TaskIds : SmAddUserMessage(t)
    \/ \E t \in TaskIds : SmTitle(t)
    \/ \E t \in TaskIds : SmCouncil(t)
    \/ \E t \in TaskIds : SmAddAssistantMessage(t)
    \/ \E t \in TaskIds : SmRelease(t)
    \/ \E t \in TaskIds : Start(t)
    \/ \E t \in TaskIds : AddUserMessage(t)
    \/ \E t \in TaskIds : GetPreviousDecision(t)
    \/ \E t \in TaskIds : Stage1(t)
    \/ \E t \in TaskIds : Stage3(t)
    \/ \E t \in TaskIds : Commit(t)
    \/ \E t \in TaskIds : SaveContextSummary(t)
    \/ \E t \in TaskIds : AwaitTitle(t)
    \/ \E t \in TaskIds : UpdateConversationTitle(t)
    \/ \E t \in TaskIds : Complete(t)
    \/ \E t \in TaskIds : Discard(t)

SpecStore == Init /\ [][NextStore]_vars

\* SpecParse: parse_ranking_from_text is called on a ranking text of up to
\* MaxTextLen tokens; the function keeps no state, so a behaviour makes one call.
NextParse == \E text \in Texts : call = NoCall /\ ParseRanking(text)

SpecParse == Init /\ [][NextParse]_vars

\* SpecAggregate: calculate_aggregate_rankings is called on the replies of up
\* to MaxRaters raters, each ranking up to MaxRankLen labels; a behaviour makes
\* one call.
NextAggregate ==
    \E stage2_results \in Stage2Results, label_to_model \in LabelMaps :
       call = NoCall /\ CalculateAggregate(stage2_results, label_to_model)

SpecAggregate == Init /\ [][NextAggregate]_vars

\* SpecEcho: the echo detection of stage3_synthesize_final runs on one reply of
\* the moderator.
NextEcho == \E m \in Moderations : call = NoCall /\ Stage3EchoCheck(m)

SpecEcho == Init /\ [][NextEcho]_vars

\* SpecCrossReview: stage1_5_cross_review runs once, on the S1 responses of any
\* endpoints of the pool but none, with any endpoints answering the refinement.
NextCrossReview ==
    \E S \in SUBSET PoolModels, answered \in SUBSET PoolModels :
       call = NoCall /\ CrossReview(Stage1ResultsOf(S), answered)

SpecCrossReview == Init /\ [][NextCrossReview]_vars

\* one stage1_collect_responses call over the pool; every post is bounded by the
\* client's timeout and every sleep is finite, so each pending step is taken
NextQuery ==
    \/ StartQueries
    \/ \E i \in 1..Len(QueryModels) :
          \E outcome \in PostOutcomes(QueryModels[i]) : Post(i, outcome)
    \/ \E i \in 1..Len(QueryModels) : Wake(i)
    \/ Gather

SpecQuery == Init /\ [][NextQuery]_vars /\ WF_vars(NextQuery)

\* SpecLedger: requests of u1 on d1 in flight together, the refused reservation
\* taken statement by statement: its UPDATE, then its SELECT
NextLedger ==
    \/ Submit("u1", "d1", "q1", "quick_decision", FALSE, NoMsg)
    \/ \E m \in ConcurrentModes : ReserveRefused("u1", "d1", m, FALSE)
    \/ \E t \in TaskIds : ReserveSelect(t)
    \/ cancel_processing("u1", "d1")
    \/ \E t \in TaskIds : Start(t)
    \/ \E t \in TaskIds : AddUserMessage(t)
    \/ \E t \in TaskIds : GetPreviousDecision(t)
    \/ \E t \in TaskIds : Stage1(t)
    \/ \E t \in TaskIds : Stage3(t)
    \/ \E t \in TaskIds : Commit(t)
    \/ \E t \in TaskIds : SaveContextSummary(t)
    \/ \E t \in TaskIds : AwaitTitle(t)
    \/ \E t \in TaskIds : UpdateConversationTitle(t)
    \/ \E t \in TaskIds : Complete(t)
    \/ \E t \in TaskIds : Raise(t)
    \/ \E t \in TaskIds : Refund(t)
    \/ \E t \in TaskIds : CancelDelivered(t)

SpecLedger == InitConcurrent /\ [][NextLedger]_vars

\* SpecSubmit: Quick requests of u1 one at a time, and requests of either
\* principal that fail a check of the handler, arriving at any moment
NextSubmit ==
    \/ \E d \in Convs, files \in BOOLEAN :
          SubmitAlone("u1", d, "q1", "quick_decision", files, NoMsg)
    \/ \E u \in Users, d \in Convs, too_long \in BOOLEAN, bad_files \in BOOLEAN :
          SubmitRefused(u, d, too_long, bad_files)
    \/ \E t \in TaskIds : RespondClientError(t)
    \/ \E t \in TaskIds : Start(t)
    \/ \E t \in TaskIds : AddUserMessage(t)
    \/ \E t \in TaskIds : GetPreviousDecision(t)
    \/ \E t \in TaskIds : Stage1(t)
    \/ \E t \in TaskIds : Stage3(t)
    \/ \E t \in TaskIds : Commit(t)
    \/ \E t \in TaskIds : SaveContextSummary(t)
    \/ \E t \in TaskIds : AwaitTitle(t)
    \/ \E t \in TaskIds : UpdateConversationTitle(t)
    \/ \E t \in TaskIds : Complete(t)
    \/ \E t \in TaskIds : Raise(t)
    \/ \E t \in TaskIds : Refund(t)
    \/ \E t \in TaskIds : Discard(t)

SpecSubmit == Init /\ [][NextSubmit]_vars

\* SpecHeartbeat: u1 sends one request at a time on d1, in every mode; the
\* heartbeat companions of its phases run, and a cancel can arrive at any moment
NextHeartbeat ==
    \/ \E m \in RUN_MODES : SubmitAlone("u1", "d1", "q1", m, FALSE, NoMsg)
    \/ cancel_processing("u1", "d1")
    \/ \E t \in TaskIds, p \in PhasePcs : HeartbeatStart(t, p)
    \/ \E t \in TaskIds, p \in PhasePcs : HeartbeatTimer(t, p)
    \/ \E t \in TaskIds, p \in PhasePcs : HeartbeatPut(t, p)
    \/ \E t \in TaskIds : Start(t)
    \/ \E t \in TaskIds : AddUserMessage(t)
    \/ \E t \in TaskIds : GetPreviousDecision(t)
    \/ \E t \in TaskIds : Stage1(t)
    \/ \E t \in TaskIds : Stage1_5(t)
    \/ \E t \in TaskIds : Stage2(t)
    \/ \E t \in TaskIds : Stage3(t)
    \/ \E t \in TaskIds : Commit(t)
    \/ \E t \in TaskIds : SaveContextSummary(t)
    \/ \E t \in TaskIds : AwaitTitle(t)
    \/ \E t \in TaskIds : UpdateConversationTitle(t)
    \/ \E t \in TaskIds : Complete(t)
    \/ \E t \in TaskIds : Raise(t)
    \/ \E t \in TaskIds : Refund(t)
    \/ \E t \in TaskIds : CancelDelivered(t)
    \/ \E t \in TaskIds : Discard(t)

SpecHeartbeat == Init /\ [][NextHeartbeat]_vars

\* SpecSynthesis: one stage3_synthesize_final call, for every moderator reply of
\* Moderations and every outcome of the retry
NextSynthesis ==
    \/ \E stage1_text \in BOOLEAN : call = NoCall /\ Stage3Synthesize(stage1_text)
    \/ ModeratorFailed
    \/ ModeratorRepliedNull
    \/ \E m \in Moderations : ModeratorReplied(m)
    \/ \E reply \in RetryReplies : RetryReturned(reply)

SpecSynthesis == Init /\ [][NextSynthesis]_vars

\* one run of query_model_streaming, every arrival of lines and errors
NextStream ==
    \/ StreamStart
    \/ StreamOpened
    \/ \E e \in HTTPStatusErrors \cup NetworkErrors \cup OtherErrors : StreamOpenFailed(e)
    \/ \E c \in Chunks : StreamLine(c)
    \/ StreamEnd
    \/ \E e \in NetworkErrors \cup OtherErrors : StreamBroke(e)
    \/ StreamWake

SpecStream == Init /\ [][NextStream]_vars

\* one run of stage3_synthesize_final_streaming over every stream of events
NextSynthesisStream ==
    \/ \E query_len \in StreamQueryLens, echo \in BOOLEAN, retry_echo \in BOOLEAN :
          Stage3Streaming(query_len, echo, retry_echo)
    \/ \E c \in ChunkLens : FirstToken(c)
    \/ FirstComplete
    \/ FirstError
    \/ \E c \in ChunkLens : RetryToken(c)
    \/ RetryComplete
    \/ RetryError

SpecSynthesisStream == Init /\ [][NextSynthesisStream]_vars

\* SpecDelete: rows are inserted in both deliberations by the Store's insert
\* operations until MaxStoreMessages rows exist, and delete_user_message is
\* called on any deliberation with any id, of a row or of none.
NextDelete ==
    \/ \E d \in Convs, c \in Contents :
          RoomForRow /\ add_user_message(d, c)
    \/ \E d \in Convs :
          RoomForRow /\ add_assistant_message(d, Pool, Pool, "synthesis")
    \/ \E d \in Convs :
          RoomForRow /\ create_pending_assistant_message(d)
    \/ \E d \in Convs, id \in 1..next_id : DeleteUserMessage(d, id)

SpecDelete == Init /\ [][NextDelete]_vars

\* SpecOneShot: the principals call the one-shot send_message on their own
\* deliberation, one request at a time, and any await of the handler can raise.
NextOneShot ==
    \/ \E u \in Users, d \in Convs : RoomForRequest /\ send_message(u, d, "q1")
    \/ \E t \in TaskIds : SmAddUserMessage(t)
    \/ \E t \in TaskIds : SmTitle(t)
    \/ \E t \in TaskIds : SmCouncil(t)
    \/ \E t \in TaskIds : SmAddAssistantMessage(t)
    \/ \E t \in TaskIds : SmRaise(t)
    \/ \E t \in TaskIds : SmRelease(t)

SpecOneShot == InitConcurrent /\ [][NextOneShot]_vars

\* SpecReruns: u1 asks one question on d1 in quick_decision mode and, once its
\* Answer is stored, sends reruns, up to MaxTasks of them in flight together;
\* the commit of a rerun is made in its two statements.
NextReruns ==
    \/ /\ Quiet /\ next_id = 1
       /\ Submit("u1", "d1", "q1", "quick_decision", FALSE, NoMsg)
    \/ /\ (next_id - 1) + Cardinality({t \in TaskIds : tasks[t].pc # "idle"
                                          /\ tasks[t].message_id = NoMsg}) < MaxMessages
       /\ Rerun("u1", "d1", "quick_decision")
    \/ \E t \in TaskIds : Start(t)
    \/ \E t \in TaskIds : AddUserMessage(t)
    \/ \E t \in TaskIds : Stage1(t)
    \/ \E t \in TaskIds : Stage3(t)
    \/ \E t \in TaskIds : ~tasks[t].is_rerun /\ Commit(t)
    \/ \E t \in TaskIds : CommitSelect(t)
    \/ \E t \in TaskIds : CommitInsert(t)
    \/ \E t \in TaskIds : SaveContextSummary(t)
    \/ \E t \in TaskIds : AwaitTitle(t)
    \/ \E t \in TaskIds : UpdateConversationTitle(t)
    \/ \E t \in TaskIds : Complete(t)
    \/ \E t \in TaskIds : Discard(t)

SpecReruns == Init /\ [][NextReruns]_vars

\* ------------------------------------------------------------------ claims
Emitted(t, e) ==
    \E i \in 1..Len(tasks[t].event_queue) : tasks[t].event_queue[i] = e

\* C1: with the balance b0 of u1 and concurrent submits that each reserve c, at
\* most floor(b0/c) reservations succeed, one more reservation of c is refused
\* exactly when floor(b0/c) have succeeded, and no balance is ever negative.
Reserved == {t \in TaskIds : tasks[t].pc # "idle"}
UniformCost(c) == \A t \in Reserved : tasks[t].reserved = c /\ tasks[t].refunded = 0
C1_ReservationsBounded ==
    /\ \A u \in Users : credits[u] >= 0
    /\ \A c \in 1..MaxCredits :
          UniformCost(c) =>
             /\ Cardinality(Reserved) <= b0["u1"] \div c
             /\ (~reserve_credits_atomic(credits["u1"], c).ok)
                   <=> (Cardinality(Reserved) = b0["u1"] \div c)

\* two submits in flight together have taken floor(b0/c) reservations, and the
\* next one is refused
C1_Witness ==
    \E c \in 1..MaxCredits :
       /\ UniformCost(c)
       /\ Cardinality(Reserved) = MaxTasks
       /\ \A t \in Reserved : tasks[t].pc \notin {"idle", "ended"}
       /\ Cardinality(Reserved) = b0["u1"] \div c
       /\ ~reserve_credits_atomic(credits["u1"], c).ok

\* C2: a task that reserved c credits (mode cost plus attachment cost) and ended
\* on the failure path, its refund operation having succeeded, refunded exactly c,
\* so the balance of its owner is the balance before the reservation.
C2_FailureRefundsReservation ==
    \A t \in TaskIds :
       (/\ tasks[t].pc = "ended"
        /\ Emitted(t, "error")
        /\ tasks[t].reserved > 0
        /\ tasks[t].refunded > 0)
       => /\ tasks[t].refunded = tasks[t].reserved
          /\ credits[tasks[t].user_id] = tasks[t].balance_before

\* C3: a task that emitted `complete` issued no refund, and the balance of its
\* owner is the balance before the reservation minus the reserved cost.
C3_SuccessNeverRefunds ==
    \A t \in TaskIds :
       Emitted(t, "complete") =>
          /\ tasks[t].refunded = 0
          /\ credits[tasks[t].user_id] = tasks[t].balance_before - tasks[t].reserved

\* a run with an attachment has completed
C3_Witness ==
    \E t \in TaskIds :
       /\ Emitted(t, "complete")
       /\ tasks[t].has_files
       /\ tasks[t].reserved = credit_cost(tasks[t].mode) + FILE_UPLOAD_CREDIT_COST

C5_AllFailedCommitsNothing ==
    \A t \in TaskIds :
       (Emitted(t, "stage1_complete") /\ tasks[t].stage1_results = {})
       => /\ tasks[t].commit_at = -1
          /\ ~Emitted(t, "complete")

\* C6: a task that was cancelled after run_started and has ended issued a refund,
\* posted the sentinel, and left no registry entry for its deliberation.
C6_CancelRefunds ==
    \A t \in TaskIds :
       (/\ tasks[t].pc = "ended"
        /\ tasks[t].cancel_requested
        /\ Emitted(t, "run_started")
        /\ tasks[t].reserved > 0)
       => /\ tasks[t].refunded > 0
          /\ Last(tasks[t].event_queue) = Sentinel
          /\ active_tasks[tasks[t].conversation_id] = NoTask

\* C7: the step that drops the reader changes nothing but the reader; a task
\* whose reader was dropped, that was never cancelled and has emitted `complete`
\* has its Answer in the transcript, issued no refund, keeps its credits consumed
\* and has left the registry, so status(D) reports processing:false; and
\* processing turns true again only when a new task is spawned.
C7_ReaderDropLeavesTask ==
    [][ /\ \A t \in TaskIds :
              (tasks[t].reader = "attached" /\ tasks'[t].reader = "dropped") =>
                 /\ tasks' = [tasks EXCEPT ![t].reader = "dropped"]
                 /\ UNCHANGED <<credits, messages, next_id, active_tasks, active_status>>
        /\ \A t \in TaskIds :
              (/\ tasks'[t].reader = "dropped"
               /\ ~tasks'[t].cancel_requested
               /\ Emitted(t, "complete")') =>
                 /\ \E m \in AnswerRows' : m.id = tasks'[t].message_id
                 /\ tasks'[t].refunded = 0
                 /\ credits'[tasks'[t].user_id] =
                       tasks'[t].balance_before - tasks'[t].reserved
                 /\ ~get_conversation_status(tasks[t].conversation_id)'.processing
        /\ \A d \in Convs :
              (~get_conversation_status(d).processing
                  /\ get_conversation_status(d)'.processing) =>
                 \E t \in TaskIds : tasks[t].pc = "idle" /\ tasks'[t].pc = "spawned"
      ]_vars

\* the reader of a run was dropped and the run completed with its Answer stored
C7_Witness ==
    \E t \in TaskIds :
       /\ tasks[t].reader = "dropped"
       /\ Emitted(t, "complete")
       /\ tasks[t].reserved > 0
       /\ \E m \in AnswerRows : m.id = tasks[t].message_id

\* C8 as stated: when the Answer is committed, `stage3_complete` is already in
\* the event queue.
C8_CommitAfterStage3Complete ==
    \A t \in TaskIds :
       tasks[t].commit_at >= 0 =>
          \E i \in 1..tasks[t].commit_at : tasks[t].event_queue[i] = "stage3_complete"

\* C8, amended: the Answer is committed strictly after `stage3_start` is enqueued
\* and strictly before `stage3_complete` and `complete` are; neither of the two
\* is enqueued without the commit.
C8_CommitBeforeStage3Complete ==
    \A t \in TaskIds :
       /\ (Emitted(t, "stage3_complete") \/ Emitted(t, "complete")) =>
             tasks[t].commit_at >= 0
       /\ tasks[t].commit_at >= 0 =>
             /\ \E i \in 1..tasks[t].commit_at : tasks[t].event_queue[i] = "stage3_start"
             /\ \A i \in 1..Len(tasks[t].event_queue) :
                   tasks[t].event_queue[i] \in {"stage3_complete", "complete"} =>
                      i > tasks[t].commit_at

\* a successful run: committed, then stage3_complete, then complete
C8_Witness ==
    \E t \in TaskIds :
       /\ tasks[t].commit_at >= 0
       /\ Emitted(t, "stage3_complete")
       /\ Emitted(t, "complete")

\* C9: when a task has ended after appending its Question and without a commit,
\* and that Question is still the newest row of D, status(D) is processing:false,
\* orphaned:true with the id, content and created_at of that Question.
C9_OrphanReported ==
    \A t \in TaskIds :
       LET d == tasks[t].conversation_id
           q == tasks[t].question_id
       IN  (/\ tasks[t].pc = "ended"
            /\ q # NoMsg
            /\ tasks[t].commit_at = -1
            /\ HasMessage(d, q)
            /\ \A m \in MsgsOf(d) : m.created_at <= get_message_by_id(d, q).created_at)
           => get_conversation_status(d) =
                 [processing |-> FALSE, orphaned |-> TRUE, incomplete |-> FALSE,
                  orphaned_message |->
                     <<q, tasks[t].content, get_message_by_id(d, q).created_at>>]

\* a follow-up failed after its Question in a deliberation that holds an Answer
C9_Witness ==
    \E t \in TaskIds :
       /\ tasks[t].pc = "ended"
       /\ tasks[t].question_id # NoMsg
       /\ tasks[t].commit_at = -1
       /\ Emitted(t, "error")
       /\ HasLatestAssistant(tasks[t].conversation_id)
       /\ Last(messages[tasks[t].conversation_id]).id = tasks[t].question_id

\* C10: when the run that re-sends an orphaned Question after retry_message has
\* completed, the orphaned Question is gone and D holds exactly one Question
\* with that text.
C10_RetryLeavesOneQuestion ==
    \A t \in TaskIds :
       (tasks[t].retry_of # NoMsg /\ Emitted(t, "complete")) =>
          /\ ~HasMessage(tasks[t].conversation_id, tasks[t].retry_of)
          /\ Cardinality({m \in MsgsOf(tasks[t].conversation_id) :
                             m.role = "user" /\ m.content = tasks[t].content}) = 1

\* C11: while a task of D that was not cancelled has been spawned and has not
\* posted its sentinel, status(D) is processing:true and not orphaned:true.
C11_LiveTaskReportedProcessing ==
    \A t \in TaskIds :
       (tasks[t].pc \notin {"idle", "ended"} /\ ~tasks[t].cancel_requested) =>
          /\ get_conversation_status(tasks[t].conversation_id).processing
          /\ ~get_conversation_status(tasks[t].conversation_id).orphaned

\* C12: every task runs for the owner of its deliberation, and the previous
\* decision a follow-up read is a row of a deliberation owned by the requester.
C12_ReadsOnlyOwnDeliberation ==
    \A t \in TaskIds :
       tasks[t].pc # "idle" =>
          /\ owner[tasks[t].conversation_id] = tasks[t].user_id
          /\ tasks[t].previous_decision # NoMsg =>
                \E d \in Convs :
                   /\ owner[d] = tasks[t].user_id
                   /\ HasMessage(d, tasks[t].previous_decision)

\* C13: a request of a principal with unlimited credits reserves nothing and
\* refunds nothing, and leaves the balance of that principal as it was.
C13_BypassLeavesBalance ==
    \A t \in TaskIds :
       (tasks[t].pc # "idle" /\ has_unlimited(tasks[t].user_id)) =>
          /\ tasks[t].reserved = 0
          /\ tasks[t].refunded = 0
          /\ credits[tasks[t].user_id] = tasks[t].balance_before

\* the stage columns of a row
Stages(m) == <<m.stage1, m.stage1_5, m.stage2, m.stage3>>

C15_CleanupDeletesExactlyResidue ==
    [][ lifespan =>
           /\ \A m \in AllMessages : ~Incomplete(m) => m \in AllMessages'
           /\ AllMessages' \subseteq AllMessages
           /\ \A m \in AllMessages' : ~Incomplete(m)
           /\ \A d \in Convs :
                 \A i, j \in 1..Len(messages'[d]) :
                    i < j => \E k, l \in 1..Len(messages[d]) :
                                /\ k < l
                                /\ messages[d][k] = messages'[d][i]
                                /\ messages[d][l] = messages'[d][j]
           /\ call'.op = "cleanup_incomplete_messages"
           /\ call'.output[1] = Cardinality(AllMessages) - Cardinality(AllMessages')
           /\ call'.output[2] = (Cardinality(AllMessages) # Cardinality(AllMessages')) ]_vars

\* a restart found one unfinished Answer beside a Question and a finished
\* Answer: it returned 1, logged it, and the two other rows are in the store
C15_Witness ==
    /\ call.op = "cleanup_incomplete_messages"
    /\ call.output = <<1, TRUE>>
    /\ \E m \in AllMessages : m.role = "user"
    /\ \E m \in AnswerRows : m.stage3 # NullText
    /\ \A m \in AllMessages : ~Incomplete(m)
    /\ Cardinality(AllMessages) = MaxStoreMessages - 1

\* the positions of the terminal events in the event queue of task t
TerminalAt(t) ==
    {i \in 1..Len(tasks[t].event_queue) :
        tasks[t].event_queue[i] \in {"complete", "error"}}

\* C16: the event queue of a task that has ended holds exactly one terminal
\* event, `complete` or `error`, and it is the last event before the sentinel.
C16_OneTerminalEventLast ==
    \A t \in TaskIds :
       tasks[t].pc = "ended" =>
          /\ Cardinality(TerminalAt(t)) = 1
          /\ Len(tasks[t].event_queue) >= 2
          /\ Last(tasks[t].event_queue) = Sentinel
          /\ TerminalAt(t) = {Len(tasks[t].event_queue) - 1}

\* the positions of the sentinel in the event queue of task t
SentinelAt(t) ==
    {i \in 1..Len(tasks[t].event_queue) : tasks[t].event_queue[i] = Sentinel}

\* C17: a task that has ended, however it ended, has posted exactly one
\* sentinel and it is the last entry of its event queue, so the reader of the
\* queue reaches it.
C17_EndedTaskPostedOneSentinel ==
    \A t \in TaskIds :
       tasks[t].pc = "ended" =>
          /\ Len(tasks[t].event_queue) >= 1
          /\ SentinelAt(t) = {Len(tasks[t].event_queue)}

\* the labels of s in order, and the labels of s that stand right after a list
\* number, in order
LabelsIn(s) == SelectSeq(s, LAMBDA x : x \in Labels)
NumberedLabelsIn(s) ==
    LET at == SelectSeq([i \in 1..Len(s) |-> i],
                        LAMBDA i : i > 1 /\ s[i] \in Labels /\ s[i - 1] = Number)
    IN  [k \in 1..Len(at) |-> s[at[k]]]
HeaderAt(s) == {i \in 1..Len(s) : s[i] = Header}
AfterHeader(s) ==
    LET k == CHOOSE i \in HeaderAt(s) : \A j \in HeaderAt(s) : i <= j
    IN  SubSeq(s, k + 1, Len(s))

\* C18: the value parse_ranking_from_text returned for a text is, when the text
\* has the header and numbered labels after it, those labels in order; when it
\* has the header and no numbered label after it, the labels after the header in
\* order; when it has no header, the labels of the whole text in order; and the
\* empty list for the empty text.
C18_ParseRankingContract ==
    call.op = "parse_ranking_from_text" =>
       call.output =
          IF HeaderAt(call.input) = {} THEN LabelsIn(call.input)
          ELSE IF NumberedLabelsIn(AfterHeader(call.input)) # <<>>
          THEN NumberedLabelsIn(AfterHeader(call.input))
          ELSE LabelsIn(AfterHeader(call.input))

\* the (rater, position) pairs at which a label of model stands in the rankings
\* given, and the sum of their positions
RankedAt(rankings, label_to_model, model) ==
    {<<r, p>> \in (1..Len(rankings)) \X (1..MaxRankLen) :
        /\ p <= Len(rankings[r])
        /\ rankings[r][p] \in DOMAIN label_to_model
        /\ label_to_model[rankings[r][p]] = model}
RECURSIVE SumOfPositions(_)
SumOfPositions(S) ==
    IF S = {} THEN 0
    ELSE LET x == CHOOSE y \in S : TRUE IN x[2] + SumOfPositions(S \ {x})

\* the orders the raters gave, read back from their replies
GivenRankings(stage2_results) ==
    [r \in 1..Len(stage2_results) |->
        SelectSeq(stage2_results[r].ranking, LAMBDA x : x \in Labels)]

ExampleRankings ==
    << <<"Response A", "Response B", "Response C">>,
       <<"Response B", "Response A", "Response C">>,
       <<"Response A", "Response C", "Response B">> >>

\* C19 (as stated): the value of calculate_aggregate_rankings has one entry per endpoint
\* that some rater ranked, each entry carries the mean of the 1-based positions
\* of that endpoint over all raters, to two decimals, and the entries are in
\* ascending order of that mean; for the rankings [[A,B,C],[B,A,C],[A,C,B]] with
\* A:m1, B:m2, C:m3 the value is m1 1.33, m2 1.67, m3 2.67.
C19_AggregateIsSortedMean ==
    call.op = "calculate_aggregate_rankings" =>
       LET rankings == GivenRankings(call.input[1])
           map == call.input[2]
           out == call.output
           ranked == {m \in {"m1", "m2", "m3"} : RankedAt(rankings, map, m) # {}}
       IN  /\ {out[i].model : i \in 1..Len(out)} = ranked
           /\ Len(out) = Cardinality(ranked)
           /\ \A i \in 1..Len(out) :
                 LET at == RankedAt(rankings, map, out[i].model)
                 IN  \* average_rank is the hundredth nearest to the mean
                     /\ 2 * Cardinality(at) * out[i].average_rank
                           > 200 * SumOfPositions(at) - Cardinality(at)
                     /\ 2 * Cardinality(at) * out[i].average_rank
                           <= 200 * SumOfPositions(at) + Cardinality(at)
           /\ \A i, j \in 1..Len(out) : i < j => out[i].average_rank <= out[j].average_rank
           /\ (rankings = ExampleRankings /\ map = LabelToModel) =>
                 [i \in 1..Len(out) |-> <<out[i].model, out[i].average_rank>>]
                    = << <<"m1", 133>>, <<"m2", 167>>, <<"m3", 267>> >>

\* C19 (amended): the value of calculate_aggregate_rankings has one entry per endpoint
\* that some rater ranked, each entry carries the mean of the 1-based positions
\* of that endpoint over all raters, to two decimals, and the entries are in
\* ascending order of that mean; for the rankings [[A,B,C],[B,A,C],[A,C,B]] with
\* A:m1, B:m2, C:m3 the value is m1 1.33, m2 2.00, m3 2.67.
C19_AggregateIsSortedMean_m2_at_2 ==
    call.op = "calculate_aggregate_rankings" =>
       LET rankings == GivenRankings(call.input[1])
           map == call.input[2]
           out == call.output
           ranked == {m \in {"m1", "m2", "m3"} : RankedAt(rankings, map, m) # {}}
       IN  /\ {out[i].model : i \in 1..Len(out)} = ranked
           /\ Len(out) = Cardinality(ranked)
           /\ \A i \in 1..Len(out) :
                 LET at == RankedAt(rankings, map, out[i].model)
                 IN  \* average_rank is the hundredth nearest to the mean
                     /\ 2 * Cardinality(at) * out[i].average_rank
                           > 200 * SumOfPositions(at) - Cardinality(at)
                     /\ 2 * Cardinality(at) * out[i].average_rank
                           <= 200 * SumOfPositions(at) + Cardinality(at)
           /\ \A i, j \in 1..Len(out) : i < j => out[i].average_rank <= out[j].average_rank
           /\ (rankings = ExampleRankings /\ map = LabelToModel) =>
                 [i \in 1..Len(out) |-> <<out[i].model, out[i].average_rank>>]
                    = << <<"m1", 133>>, <<"m2", 200>>, <<"m3", 267>> >>

\* the function was applied to the three rankings of the example
C19_Witness ==
    /\ call.op = "calculate_aggregate_rankings"
    /\ GivenRankings(call.input[1]) = ExampleRankings
    /\ call.input[2] = LabelToModel
    /\ Len(call.output) = 3
    /\ call.output[1] = [model |-> "m1", average_rank |-> 133, rankings_count |-> 3]
    /\ call.output[2] = [model |-> "m2", average_rank |-> 200, rankings_count |-> 3]

\* what the claim reads off a reply: it begins, after stripping, with the first
\* (at most 80) characters of the question; an indicator lies in its first 500
\* characters; at least 500 characters follow the echoed prefix
BeginsWithQuestion(m) == m.echo_len >= Min(80, m.query_len)
IndicatorInFirst500(m) == m.indicator_at # -1 /\ m.indicator_at + IndicatorLen <= 500
SubstantialContent(m) == m.content_len >= Min(80, m.query_len) + 500

\* C20 (as stated): for a question of more than 100 characters, echo is
\* declared exactly when the output begins with the start of the question and
\* no indicator lies in its first 500 characters; with an indicator, or with
\* substantial content after the prefix, no echo is declared and no retry is
\* issued.
C20_EchoExactlyPrefixWithoutIndicator ==
    (call.op = "stage3_synthesize_final" /\ call.input.query_len > 100) =>
       /\ call.output.echo_detected
             <=> (BeginsWithQuestion(call.input) /\ ~IndicatorInFirst500(call.input))
       /\ (IndicatorInFirst500(call.input) \/ SubstantialContent(call.input)) =>
             (~call.output.echo_detected /\ ~call.output.retry)

\* C20 (amended): echo is declared exactly when the question is longer than 100
\* characters, the output begins with its first 80 characters, and it is not
\* the case that an indicator lies in the first 500 characters of the output
\* while the output is longer than the stripped first 150 characters of the
\* question plus 500; a retry is issued exactly when echo is declared and no
\* synthesis marker stands after the start of the question; without a declared
\* echo there is no retry.
C20_EchoUnlessIndicatorAndSubstance ==
    call.op = "stage3_synthesize_final" =>
       /\ call.output.echo_detected
             <=> /\ call.input.query_len > 100
                 /\ BeginsWithQuestion(call.input)
                 /\ \/ ~IndicatorInFirst500(call.input)
                    \/ call.input.content_len <= Min(150, call.input.query_len) + 500
       /\ call.output.retry
             <=> /\ call.output.echo_detected
                 /\ \/ call.input.marker_at = -1
                    \/ call.input.marker_at <= Min(150, call.input.query_len)
       /\ ~call.output.echo_detected => ~call.output.retry

\* a reply that repeats the question, holds an indicator in its first 500
\* characters and is short: echo was declared and the retry issued
C20_Witness ==
    /\ call.op = "stage3_synthesize_final"
    /\ call.input.query_len > 100
    /\ BeginsWithQuestion(call.input)
    /\ IndicatorInFirst500(call.input)
    /\ call.input.content_len = 300
    /\ call.output.echo_detected
    /\ call.output.retry

\* C21: every entry of stage1_5 belongs to an endpoint that has an entry in
\* stage1 and is the refinement of that entry's response, and when every
\* refinement call succeeded stage1_5 has as many entries as stage1.
C21_RefinesOwnStage1Response ==
    call.op = "stage1_5_cross_review" =>
       LET stage1 == call.input[1]
           stage1_5 == call.output
       IN  /\ \A k \in 1..Len(stage1_5) :
                 \E i \in 1..Len(stage1) :
                    /\ stage1[i].model = stage1_5[k].model
                    /\ stage1_5[k].response = Refinement(stage1[i].response)
           /\ call.input[2] = PoolModels => Len(stage1_5) = Len(stage1)

\* the answers status(D) can give without a registry entry
PlainStatus ==
    [processing |-> FALSE, orphaned |-> FALSE, incomplete |-> FALSE,
     orphaned_message |-> <<>>]
OrphanedStatus(q) ==
    [processing |-> FALSE, orphaned |-> TRUE, incomplete |-> FALSE,
     orphaned_message |-> <<q.id, q.content, q.created_at>>]
IncompleteStatus == [PlainStatus EXCEPT !.incomplete = TRUE]

AnswerRowIdx(d) == {i \in 1..Len(messages[d]) : messages[d][i].role = "assistant"}
SomeStagesNoStage3(m) ==
    /\ m.stage3 = NullText
    /\ m.stage1 # Null \/ m.stage1_5 # Null \/ m.stage2 # Null

\* C22: with no registry entry for D, status(D) is decided in this order: the
\* last Answer of D has a stage3 -> processing:false without an orphaned flag;
\* else D ends with a Question -> orphaned:true with that Question; else some
\* Answer of D has stages but no stage3 -> incomplete:true; else processing:false.
C22_StatusDecisionOrder ==
    \A d \in Convs :
       active_tasks[d] = NoTask =>
          get_conversation_status(d) =
             IF AnswerRowIdx(d) # {}
                   /\ messages[d][Max(AnswerRowIdx(d))].stage3 # NullText
             THEN PlainStatus
             ELSE IF HasOrphan(d) THEN OrphanedStatus(Last(messages[d]))
             ELSE IF \E i \in AnswerRowIdx(d) : SomeStagesNoStage3(messages[d][i])
             THEN IncompleteStatus
             ELSE PlainStatus

\* the part of C22 about an interrupted Answer alone: D ends with an Answer row
\* that has stages but no stage3, and status(D) says incomplete
C22_IncompleteReported ==
    \A d \in Convs :
       (/\ active_tasks[d] = NoTask
        /\ Len(messages[d]) > 0
        /\ Last(messages[d]).role = "assistant"
        /\ SomeStagesNoStage3(Last(messages[d])))
          => get_conversation_status(d).incomplete

PoolIndex(model) == CHOOSE i \in 1..Len(QueryModels) : QueryModels[i] = model
Succeeded == {i \in 1..Len(QueryModels) : call.input[i].response.kind = "dict"}

C24_RefusedReserveReportsShortBalance ==
    [][\A t \in TaskIds :
          /\ (tasks[t].pc = "idle" /\ tasks'[t].pc = "reserve_select") =>
                /\ credits["u1"] < InsufficientCreditsError(t)'.required
                /\ credits' = credits
                /\ messages' = messages
                /\ active_tasks' = active_tasks
          /\ (tasks[t].pc = "reserve_select" /\ tasks'[t].pc # "reserve_select") =>
                /\ InsufficientCreditsError(t).available = credits[tasks[t].user_id]
                /\ InsufficientCreditsError(t).available
                      < InsufficientCreditsError(t).required
                /\ credits' = credits
                /\ messages' = messages
                /\ active_tasks' = active_tasks]_vars

\* the same without the bound on available: the error carries the amount asked
\* for and the balance read by the SELECT, and nothing is changed
C24_RefusedReserveChangesNothing ==
    [][\A t \in TaskIds :
          (tasks[t].pc = "reserve_select" /\ tasks'[t].pc # "reserve_select") =>
             /\ InsufficientCreditsError(t).available = credits[tasks[t].user_id]
             /\ tasks[t].balance_before < InsufficientCreditsError(t).required
             /\ credits' = credits
             /\ messages' = messages
             /\ active_tasks' = active_tasks]_vars

ClientErrors == {"http_400", "http_404"}

\* C25: a submit refused for an oversize query, invalid attachments or a
\* deliberation of another owner is answered with a client error before any
\* ledger operation: balance, transcript and registry are what they were.
C25_RefusedSubmitTouchesNothing ==
    [][\A t \in TaskIds :
          (tasks[t].pc # tasks'[t].pc
              /\ (tasks[t].pc \in ClientErrors \/ tasks'[t].pc \in ClientErrors)) =>
             /\ credits' = credits
             /\ messages' = messages
             /\ next_id' = next_id
             /\ active_tasks' = active_tasks
             /\ active_status' = active_status]_vars

\* u1, who could pay, is being answered 400 while an earlier request of u1 is
\* running, and the balance is what the handler found
C25_Witness ==
    \E t \in TaskIds :
       /\ tasks[t].pc = "http_400"
       /\ tasks[t].user_id = "u1"
       /\ tasks[t].balance_before >= 1
       /\ credits["u1"] = tasks[t].balance_before
       /\ active_tasks[tasks[t].conversation_id] # NoTask

Retryable(e) ==
    \/ e.kind = "HTTPStatusError" /\ e.status \in {429, 500, 502, 503, 504}
    \/ e.kind \in {"ConnectError", "TimeoutException"}
QueryRetriesAtMostOnce(q) ==
    /\ q.attempts <= 2
    /\ (q.attempts = 2 \/ q.pc = "sleep") => Retryable(q.first_error)
    /\ (q.first_error # NoError /\ ~Retryable(q.first_error)) =>
          q.attempts = 1 /\ q.pc = "done" /\ q.response = NoneResponse
    /\ \A k \in 1..Len(q.delays) : q.delays[k] = 2 ^ (k - 1)
    /\ Len(q.delays) = (IF Retryable(q.first_error) THEN 1 ELSE 0)
    /\ q.pc = "done" =>
          /\ q.attempts >= 1
          /\ q.response.kind \in {"dict", "None"}
          /\ (q.attempts = 1 /\ q.first_error # NoError) => q.response = NoneResponse
AllQueriesReturned ==
    /\ call.op \in {"query_models_parallel", "stage1_collect_responses"}
    /\ \A i \in 1..Len(call.input) : call.input[i].pc = "done"

\* C26: a query_model call makes at most 2 attempts; the second is made only
\* after a retryable status (429, 500, 502, 503, 504) or a network or timeout
\* error on the first, after a backoff of 1 s doubled per attempt; any other
\* error returns None at once; a call whose last attempt failed returns None;
\* and every call returns.
C26_QueryModelRetriesOnceAndReturns ==
    /\ [](call.op \in {"query_models_parallel", "stage1_collect_responses"} =>
             \A i \in 1..Len(call.input) : QueryRetriesAtMostOnce(call.input[i]))
    /\ <>AllQueriesReturned

\* one call gave up after a 503 and a second failed attempt, one second apart;
\* another returned None at once on a 400; the third answered at its first attempt
C26_Witness ==
    /\ AllQueriesReturned
    /\ \E i, j, k \in 1..Len(call.input) :
          /\ call.input[i].first_error.status = 503
          /\ call.input[i].attempts = 2
          /\ call.input[i].delays = <<1>>
          /\ call.input[i].response = NoneResponse
          /\ call.input[j].first_error.status = 400
          /\ call.input[j].attempts = 1
          /\ call.input[j].response = NoneResponse
          /\ call.input[k].first_error = NoError
          /\ call.input[k].attempts = 1
          /\ call.input[k].response.kind = "dict"

CompletionEvent(p) ==
    IF p = "stage1" THEN "stage1_complete"
    ELSE IF p = "stage1_5" THEN "stage1_5_complete"
    ELSE IF p = "stage2" THEN "stage2_complete"
    ELSE "stage3_complete"

\* C27: the heartbeat companion of a phase is cancelled when the phase finishes,
\* by returning or by raising: no heartbeat event of a phase is enqueued after
\* that phase's completion event, after `error`, or after the sentinel.
C27_NoHeartbeatAfterPhaseEnds ==
    \A t \in TaskIds :
       LET q == tasks[t].event_queue
       IN  \A p \in PhasePcs :
              /\ tasks[t].pc # p => tasks[t].heartbeats[p] \in {"none", "cancelled"}
              /\ \A i, j \in 1..Len(q) :
                    (i < j /\ q[j] = HeartbeatEvent(p)) =>
                       q[i] \notin {CompletionEvent(p), "error", Sentinel}

\* a finished Extra-Care run whose first and last phases each enqueued a
\* heartbeat before they completed
C27_Witness ==
    \E t \in TaskIds :
       LET q == tasks[t].event_queue
       IN  /\ tasks[t].pc = "ended"
           /\ tasks[t].mode = "decide_pretty_please"
           /\ \E i, j, k, l \in 1..Len(q) :
                 /\ i < j /\ j < k /\ k < l
                 /\ q[i] = HeartbeatEvent("stage1")
                 /\ q[j] = "stage1_complete"
                 /\ q[k] = HeartbeatEvent("stage3")
                 /\ q[l] = "stage3_complete"
           /\ Last(q) = Sentinel

\* the events of the stage machine, in the machine's order
StageMachineEvents ==
    <<"run_started", "stage1_start", "stage1_complete", "stage1_5_start",
      "stage1_5_complete", "stage2_start", "stage2_complete", "stage3_start",
      "stage3_complete", "complete">>
IsStageEvent(e) == \E r \in 1..Len(StageMachineEvents) : StageMachineEvents[r] = e
Rank(e) == CHOOSE r \in 1..Len(StageMachineEvents) : StageMachineEvents[r] = e
StageEventsOf(q) == SelectSeq(q, IsStageEvent)
Has(q, e) == \E i \in 1..Len(q) : q[i] = e

\* C28: the stage events of a run follow the stage machine of its mode:
\* run_started comes first; each stage event occurs at most once and in the
\* machine's order, a complete only after its start and a stage only after the
\* one before it completed; stage1_5 events only in Extra-Care, stage2 events
\* only with peer review; and error can end the run at any point, after which
\* no stage event follows.
C28_StageEventsFollowMode ==
    \A t \in TaskIds :
       LET q == tasks[t].event_queue
           s == StageEventsOf(q)
       IN  /\ Has(q, "run_started") => q[1] = "run_started"
           /\ s # <<>> => s[1] = "run_started"
           /\ \A i, j \in 1..Len(s) : i < j => Rank(s[i]) < Rank(s[j])
           /\ \A i \in 2..Len(s) :
                 \/ Rank(s[i - 1]) = Rank(s[i]) - 1
                 \/ s[i] \in {"stage2_start", "stage3_start"}
                       /\ s[i - 1] \in {"stage1_complete", "stage1_5_complete",
                                        "stage2_complete"}
           /\ (Has(q, "stage1_5_start") \/ Has(q, "stage1_5_complete")) =>
                 tasks[t].mode = "decide_pretty_please"
           /\ (Has(q, "stage2_start") \/ Has(q, "stage2_complete")) =>
                 enable_peer_review(tasks[t].mode)
           /\ (Has(q, "stage3_start") /\ enable_peer_review(tasks[t].mode)) =>
                 Has(q, "stage2_complete")
           /\ \A i, j \in 1..Len(q) :
                 (i < j /\ q[i] = "error") => ~IsStageEvent(q[j])

\* a finished Extra-Care run that went through every stage, a finished Quick run
\* is covered by the same formula
C28_Witness ==
    \E t \in TaskIds :
       /\ tasks[t].pc = "ended"
       /\ tasks[t].mode = "decide_pretty_please"
       /\ StageEventsOf(tasks[t].event_queue) = StageMachineEvents

\* C29: a run that has emitted stage3_start has emitted before it exactly one of
\* stage1_5_complete and stage1_5_skipped, and exactly one of stage2_complete and
\* stage2_skipped.
C29_OneOutcomePerOptionalStage ==
    \A t \in TaskIds :
       LET q == tasks[t].event_queue
           Before(k, e) == Cardinality({i \in 1..(k - 1) : q[i] = e})
       IN  \A k \in 1..Len(q) :
              q[k] = "stage3_start" =>
                 /\ Before(k, "stage1_5_complete") + Before(k, "stage1_5_skipped") = 1
                 /\ Before(k, "stage2_complete") + Before(k, "stage2_skipped") = 1

\* the half of C29 about stage 2, and stage 1.5 in the runs whose S1 returned
\* at least one response
C29_OneOutcomeWhenStage1Answered ==
    \A t \in TaskIds :
       LET q == tasks[t].event_queue
           Before(k, e) == Cardinality({i \in 1..(k - 1) : q[i] = e})
       IN  \A k \in 1..Len(q) :
              q[k] = "stage3_start" =>
                 /\ tasks[t].stage1_results # {} =>
                       Before(k, "stage1_5_complete") + Before(k, "stage1_5_skipped") = 1
                 /\ Before(k, "stage2_complete") + Before(k, "stage2_skipped") = 1

\* C30: when the echo is confirmed and no synthesis marker follows it,
\* stage3_synthesize_final makes exactly one retry call, so at most two
\* moderator calls per run; a retry that echoes or fails leaves the canned
\* failure text as stage3; in every case a stage3 value is returned and the run
\* goes on to the commit: an echo never fails the run or refunds it.
C30_EchoRetriesOnceAndReturns ==
    call.op = "stage3_synthesize_final" =>
       LET out == call.output
       IN  /\ out.calls <= 2
           /\ out.calls = 2 <=> (out.check.retry /\ out.pc # "query_model")
           /\ (out.check.echo_detected /\ ~out.check.synthesis_found) =>
                 /\ out.pc \in {"retry", "returned"}
                 /\ out.run # "failed_refund"
                 /\ out.pc = "returned" =>
                       /\ out.run = "commit"
                       /\ out.response \in {"retry_content", CANNED_RETRY_ECHOED,
                                            CANNED_RETRY_FAILED}

\* the same for the runs whose Decision Maker responses are all texts
C30_EchoRetriesOnceWhenResponsesAreText ==
    (call.op = "stage3_synthesize_final" /\ call.input[1]) =>
       LET out == call.output
       IN  /\ out.calls <= 2
           /\ out.calls = 2 <=> (out.check.retry /\ out.pc # "query_model")
           /\ (out.check.echo_detected /\ ~out.check.synthesis_found) =>
                 /\ out.pc \in {"retry", "returned"}
                 /\ out.run # "failed_refund"
                 /\ out.pc = "returned" =>
                       /\ out.run = "commit"
                       /\ out.response \in {"retry_content", CANNED_RETRY_ECHOED,
                                            CANNED_RETRY_FAILED}

\* the contents of the token events of ev, concatenated in order
RECURSIVE TokenText(_)
TokenText(ev) ==
    IF ev = <<>> THEN <<>>
    ELSE (IF Head(ev).type = "token" THEN Head(ev).content ELSE <<>>)
         \o TokenText(Tail(ev))

EventTypes(ev) == [i \in 1..Len(ev) |-> ev[i].type]

\* the withholding part of C31: no token before the echo test has run; after a
\* clean test the tokens yielded are the tokens read, in order, the buffer
\* first; after an echo the first event is retry and nothing of the first
\* stream is yielded
SynthesisStreamWithholds(g) ==
    /\ ~g.checked => (TokenText(g.events) = <<>> /\ SumSeq(g.buffer) < ECHO_BUFFER_SIZE)
    /\ (g.checked /\ ~g.echo_detected) =>
          /\ TokenText(g.events) = g.upstream
          /\ g.events # <<>> => (g.events[1].type = "token" => g.events[1].content = g.buffer)
    /\ g.echo_detected =>
          /\ g.events[1] = RetryEvent
          /\ TokenText(g.events) = g.upstream

\* C31: stage3_synthesize_final_streaming yields no token before the echo test
\* has run on the buffer; a clean buffer is flushed whole and the later tokens
\* follow in order, nothing lost or duplicated; on an echo nothing buffered is
\* yielded and a retry event is emitted; a retry that echoes again is replaced
\* by the canned failure message, so none of its text reaches the client.
C31_StreamWithholdsEchoes ==
    call.op = "stage3_synthesize_final_streaming" =>
       LET g == call.output
       IN  /\ SynthesisStreamWithholds(g)
           /\ (g.echo_detected /\ g.retry_echo) =>
                 /\ TokenText(g.events) = <<>>
                 /\ g.pc = "returned" => EventTypes(g.events) = <<"retry", "error">>

\* the part of C31 that the generator keeps: the first stream is withheld until
\* the test, flushed whole when clean and dropped on an echo
C31_FirstStreamWithheldUntilChecked ==
    call.op = "stage3_synthesize_final_streaming" =>
       SynthesisStreamWithholds(call.output)

\* C38: a run of query_model_streaming ends with exactly one complete or error
\* event, as its last event, and when it ends with complete the token events
\* yielded before it concatenate to the content of the complete event, also
\* when an error in mid-stream made the generator retry.
C38_TokensAddUpToComplete ==
    (call.op = "query_model_streaming" /\ call.output.pc = "returned") =>
       LET ev == call.output.events
       IN  /\ ev # <<>>
           /\ Last(ev).type \in {"complete", "error"}
           /\ \A i \in 1..(Len(ev) - 1) : ev[i].type = "token"
           /\ Last(ev).type = "complete" => TokenText(ev) = Last(ev).content

\* the part of C38 that the generator keeps: one terminal event, the last one
C38_OneTerminalEventLast ==
    (call.op = "query_model_streaming" /\ call.output.pc = "returned") =>
       LET ev == call.output.events
       IN  /\ ev # <<>>
           /\ Last(ev).type \in {"complete", "error"}
           /\ \A i \in 1..(Len(ev) - 1) : ev[i].type = "token"

\* the Answers of p's revision chain that existed before the row m was inserted
ChainBefore(p, m) ==
    {x \in AnswerRows : x.id < m.id /\ (x.id = p \/ x.parent_message_id = p)}

C33_DeletesOnlyQuestions ==
    call.op = "delete_user_message" =>
       LET id == call.input[2]
           before == call.input[3]
           after == call.output.rows
       IN  IF \E i \in 1..Len(before) : before[i].id = id /\ before[i].role = "user"
           THEN /\ call.output.raised = "none"
                /\ after = RemoveId(before, id)
           ELSE /\ call.output.raised \in {"ValueError: Message not found",
                                            "ValueError: Can only delete user messages"}
                /\ after = before

\* delete_user_message was called on an Answer that is in the transcript
C33_Witness ==
    /\ call.op = "delete_user_message"
    /\ call.output.raised = "ValueError: Can only delete user messages"
    /\ \E i \in 1..Len(call.input[3]) :
          call.input[3][i].id = call.input[2] /\ call.input[3][i].role = "assistant"

\* C34: when a Scheduler task has ended, by success, failure or cancellation,
\* none of its child tasks is still running: every heartbeat companion it
\* created has been cancelled and the title subtask, if one was created, has
\* been awaited or cancelled.
C34_NoChildOutlivesItsTask ==
    \A t \in TaskIds :
       tasks[t].pc = "ended" =>
          /\ \A p \in PhasePcs : tasks[t].heartbeats[p] \in {"none", "cancelled"}
          /\ tasks[t].title_task \in {"none", "awaited", "cancelled"}

\* the part of C34 that the Scheduler keeps: no heartbeat companion outlives its
\* task, and a task that reached its complete event has awaited its title subtask
C34_HeartbeatsEndAndSuccessAwaitsTitle ==
    \A t \in TaskIds :
       tasks[t].pc = "ended" =>
          /\ \A p \in PhasePcs : tasks[t].heartbeats[p] \in {"none", "cancelled"}
          /\ (\E i \in 1..Len(tasks[t].event_queue) : tasks[t].event_queue[i] = "complete")
                => tasks[t].title_task \in {"none", "awaited"}

\* C35: the parent pointer recorded for a rerun is the id of the original Answer,
\* which is no rerun, also when the latest Answer of the deliberation is itself
\* a rerun: no Answer's parent is an Answer that has a parent.
C35_ParentIsTheOriginalAnswer ==
    \A m \in AnswerRows :
       m.parent_message_id # NoMsg =>
          \A x \in AnswerRows :
             x.id = m.parent_message_id =>
                (~x.is_rerun /\ x.parent_message_id = NoMsg)

\* what rerun_decision does record: the parent of every rerun is an Answer of
\* the same deliberation that was committed before it
C35_ParentIsAnEarlierAnswer ==
    \A d \in Convs : \A m \in MsgsOf(d) :
       (m.role = "assistant" /\ m.is_rerun) =>
          \E x \in MsgsOf(d) :
             x.role = "assistant" /\ x.id = m.parent_message_id /\ x.id < m.id

\* the Scheduler tasks of deliberation d that have been created and have not ended
RunningTasks(d) ==
    {t \in TaskIds : tasks[t].conversation_id = d /\ tasks[t].pc \notin {"idle", "ended"}}

\* a step in which task t ends while the registry entry it removes is the entry
\* of another task, which is still running
EndRemovesEntryOfAnother(t, d) ==
    /\ tasks[t].pc # "ended" /\ tasks'[t].pc = "ended"
    /\ active_tasks[d] \notin {NoTask, t}
    /\ active_tasks'[d] = NoTask
    /\ tasks'[active_tasks[d]].pc \notin {"idle", "ended"}

\* C36: at any time at most one Scheduler task is running for a deliberation: a
\* submit or rerun on a deliberation that has a registered running task starts
\* no second concurrent task, and the end of one task never removes the
\* registry entry of another.
C36_OneRunningTaskPerDeliberation ==
    /\ [](\A d \in Convs : Cardinality(RunningTasks(d)) <= 1)
    /\ [][\A t \in TaskIds, d \in Convs : ~EndRemovesEntryOfAnother(t, d)]_vars

\* the second half of C36 alone, as a statement about the steps
C36_EndKeepsEntriesOfOthers ==
    [][\A t \in TaskIds, d \in Convs : ~EndRemovesEntryOfAnother(t, d)]_vars

\* the registry itself never names more than one task for a deliberation, and
\* the task it names is one of that deliberation
C36_RegistryNamesATaskOfTheDeliberation ==
    \A d \in Convs :
       active_tasks[d] # NoTask => tasks[active_tasks[d]].conversation_id = d

\* the Answers that request t has committed
AnswersOf(t) == {m \in AnswerRows : m.id = tasks[t].message_id}

\* C37: for one request a refund and a committed Answer never both occur: after
\* add_assistant_message_complete has succeeded no refund is issued for the
\* request, and when a refund has been issued no Answer of the request is in
\* the transcript.
C37_NoRefundForACommittedAnswer ==
    \A t \in TaskIds :
       ~(tasks[t].refunded > 0 /\ tasks[t].message_id # NoMsg /\ AnswersOf(t) # {})

\* the part of C37 that the Scheduler keeps: a run that fails before the atomic
\* save is refunded without an Answer, and a run that reaches its complete
\* event is not refunded
C37_RefundBeforeCommitLeavesNoAnswer ==
    \A t \in TaskIds :
       /\ (tasks[t].refunded > 0 /\ tasks[t].commit_at = -1) =>
             tasks[t].message_id = NoMsg
       /\ (\E i \in 1..Len(tasks[t].event_queue) : tasks[t].event_queue[i] = "complete")
             => tasks[t].refunded = 0

\* C40: on the one-shot send_message path the credits reserved are restored when
\* title generation, the council run or the save of the Answer fails: a request
\* that has ended without a stored Answer leaves the balance of its principal at
\* the value it had before the request.
C40_FailedSendMessageRestoresBalance ==
    \A t \in TaskIds :
       (tasks[t].pc = "sm_failed" /\ tasks[t].message_id = NoMsg) =>
          credits[tasks[t].user_id] = tasks[t].balance_before

\* what send_message does keep: a request takes one credit from a paying
\* principal when it starts, none from an unlimited one, and nothing after that
C40_SendMessageChargesOnceAtTheStart ==
    \A t \in TaskIds :
       tasks[t].pc \in {"sm_add_user_message", "sm_title", "sm_council",
                        "sm_add_assistant_message", "sm_returned", "sm_failed"} =>
          credits[tasks[t].user_id] = tasks[t].balance_before - tasks[t].reserved

\* the reruns that have been committed with parent p
RerunsOf(p) == {m \in AnswerRows : m.is_rerun /\ m.parent_message_id = p}

\* C39: two reruns committed for the same parent Answer never receive the same
\* revision_number, also when their commits interleave.
C39_RerunsOfOneParentDiffer ==
    \A m1, m2 \in AnswerRows :
       (m1.is_rerun /\ m2.is_rerun /\ m1.id # m2.id
           /\ m1.parent_message_id = m2.parent_message_id) =>
          m1.revision_number # m2.revision_number

\* what the two statements do give: the number of a rerun is one more than the
\* largest number its SELECT could see, so it is larger than the number of its
\* parent and of every rerun of that parent committed before the SELECT ran
C39_RerunIsPastItsParent ==
    \A m \in AnswerRows :
       m.is_rerun =>
          \A x \in AnswerRows :
             x.id = m.parent_message_id => m.revision_number > x.revision_number

====
